---- MODULE Spec2Model ----
(***************************************************************************)
(* Model of the vm31-relayer pipeline: the batch queue (batch_queue.rs),   *)
(* the bounded channel to the prover, the prover orchestrator (prover.rs)  *)
(* and the batch / note namespaces of the in-memory store (store.rs).      *)
(*                                                                         *)
(* Time is kept as the elapsed seconds of every queued transaction         *)
(* (Instant::elapsed of enqueued_at), saturating at the largest threshold  *)
(* the code compares it with.                                              *)
(***************************************************************************)
EXTENDS Integers, Sequences, FiniteSets, TLC

\* ------------------------------------------------------------------ bounds
\* number of push calls explored
MaxTxs == 4
MaxProverTxs == 3
\* configuration ranges explored (RelayerConfig accepts every value >= 1)
MaxMaxSize == 3
MaxMinBatch == 3
MaxTimeout == 2
MaxWait == 2
\* number of distinct deposit note contents (owner, asset, amount)
MaxNoteKeys == 1
\* number of push calls explored under the fairness conditions
MaxLiveTxs == 2
\* submit requests explored, and how many of them are in progress at once
MaxRequests == 3
MaxInFlight == 2
\* milliseconds the envelope resolution of a request may take
MaxEnvelopeMs == 5
\* idempotency keys of the direct store calls
MaxTokenKeys == 2
\* requests and limits of the rate limiter runs
MaxRateRequests == 4
MaxRateLimit == 3
\* deposits, note keys and chain events of the note index runs
MaxTreeTxs == 2
MaxTreeKeys == 2
MaxLeaves == 3
\* calls of bridge_withdrawal by the callers of BridgeService alone
MaxBridgeCalls == 2
\* transactions of the batch whose notes are indexed
MaxIndexTxs == 4
\* calls counted by one key of the Redis rate limiter
MaxRedisCount == 3
\* requests of the runs behind a reverse proxy
MaxProxyRequests == 3

VARIABLES
    max_size,        \* BatchQueue.max_size
    min_batch_size,  \* BatchQueue.min_batch_size
    timeout,         \* BatchQueue.timeout (seconds)
    max_wait,        \* BatchQueue.max_wait (seconds)
    channel_buffer,  \* capacity of the mpsc channel (32 in main.rs, 8 in the tests)
    pending,         \* BatchQueue.pending: Seq of QueuedTx
    channel,         \* the mpsc channel trigger_tx -> rx: Seq of ReadyBatch
    rxOpen,          \* the Receiver has not been dropped
    lockSend,        \* push / force_flush holding the pending lock inside send().await
    loopSend,        \* the timeout loop's batch inside trigger_tx.send(ready).await
    loopAlive,       \* the timeout loop has not broken out of its loop
    nextTx,          \* identity of the next pushed transaction
    nextBatch,       \* Uuid::new_v4(): a fresh batch id per flush
    ev,              \* what the last step returned to its caller
    observe,         \* whether ev is recorded
    pc,              \* position of ProverService::run / process_batch
    cur,             \* the prover's locals for the batch in process
    batches,         \* InMemoryStore.batches
    notes,           \* InMemoryStore.notes
    sent,            \* history: the batch ids placed on the channel, in order
    recvd,           \* history: the ReadyBatches rx.recv() returned, in order
    effects,         \* history: the proving, submission, bridge and note-write steps started
    rate_limit_per_min,        \* RelayerConfig.rate_limit_per_min
    legacy_plaintext_allowed,  \* RelayerConfig.legacy_plaintext_allowed
    relayer_private_key,       \* RelayerConfig.relayer_private_key
    now,             \* now_epoch(): the wall clock in seconds
    idempotency,     \* InMemoryStore.idempotency: key -> (result, created)
    rate_limits,     \* InMemoryStore.rate_limits: key -> (count, window_start)
    reqs,            \* the submit handlers in progress: request id -> its locals
    nextReq,         \* identity of the next arriving request
    resp,            \* the response the last step sent
    enqueued,        \* history: the submissions whose transaction was pushed
    tree_sync,       \* AppState.tree_sync: None, or the leaves of TreeSyncService.tree
    chain,           \* the NoteInserted events of the pool contract, in order
    syncer,          \* position and locals of TreeSyncService::run
    lookup,          \* the get_merkle_path handler waiting for TreeSyncService::get_proof
    reply,           \* the response the last get_merkle_path step sent
    shutdown,        \* position and locals of main's shutdown_signal and exit
    view,            \* the response the last get_batch step sent
    bridge,          \* position and locals of BridgeService::bridge_withdrawal, and its calls
    redis,           \* RedisStore, the rl: keys: key -> (count, expires_at)
    trusted_proxies  \* RelayerConfig.trusted_proxies

qvars == <<pending, channel, lockSend, loopSend, loopAlive, nextTx, nextBatch, sent>>
cfgvars == <<max_size, min_batch_size, timeout, max_wait, channel_buffer, observe>>
pvars == <<pc, cur, batches, notes, recvd, effects>>
tvars == <<tree_sync, chain, syncer, lookup, reply>>
hvars == <<shutdown, view, bridge, redis, trusted_proxies>>
svars == <<rate_limit_per_min, legacy_plaintext_allowed, relayer_private_key, now,
           idempotency, rate_limits, reqs, nextReq, resp, enqueued, tvars, hvars>>
vars == <<cfgvars, qvars, rxOpen, ev, pvars, svars>>
\* what the handlers and tasks outside the queue, the store and the trees leave alone
hostframe == <<cfgvars, rxOpen, pvars, rate_limit_per_min, legacy_plaintext_allowed,
               relayer_private_key, now, idempotency, rate_limits, reqs, nextReq, resp,
               enqueued, tvars, redis, trusted_proxies>>

\* ------------------------------------------------------------------ helpers
Min(a, b) == IF a <= b THEN a ELSE b
Max(a, b) == IF a >= b THEN a ELSE b
Range(s) == {s[i] : i \in DOMAIN s}
Last(s) == s[Len(s)]

\* PendingTx: Deposit / Withdraw / Transfer.  id is the identity of the value
\* moved through the queue; ck stands for the deposit fields the note key is
\* hashed from (0 for the other kinds).
Kinds == {"Deposit", "Withdraw", "Transfer"}
PendingTx(id, kind, ck) == [id |-> id, kind |-> kind, ck |-> ck]
TxInputs == {<<"Deposit", k>> : k \in 1..MaxNoteKeys} \cup {<<"Withdraw", 0>>, <<"Transfer", 0>>}

QueuedTx(tx) == [tx |-> tx, elapsed |-> 0]
ReadyBatch(id, txs) == [batch_id |-> id, transactions |-> txs]

\* what a queue operation returned to its caller (batch_id 0 is None), kept
\* for the step that returned it when the specification observes the callers
NoEvent == [op |-> "none", batch_id |-> 0, queue_len |-> 0]
Event(op, id, len) ==
    IF observe THEN [op |-> op, batch_id |-> id, queue_len |-> len] ELSE NoEvent

\* elapsed() is only compared with timeout and max_wait
AgeCap == Max(timeout, max_wait)

\* a drain that leaves out the newest element
DrainSkipsLast(q) == [i \in 1..(Len(q) - 1) |-> q[i].tx]

\* pending.drain(..).map(|q| q.tx).collect()
Drain(q) == [i \in 1..Len(q) |-> q[i].tx]

\* txs.shuffle(&mut thread_rng()): any permutation of the drained vector
shuffle_txs(txs) ==
    {[i \in 1..Len(txs) |-> txs[p[i]]] : p \in Permutations(1..Len(txs))}

\* a size check that is off by one
SizeTriggeredLate(len) == len > max_size

\* push: if len >= self.max_size
SizeTriggered(len) == len >= max_size

\* a force flush that only refuses the empty queue
ForceAllowedNonEmpty(q) == ~(q = <<>>)

\* force_flush: neither pending.is_empty() nor pending.len() < self.min_batch_size
ForceAllowed(q) == ~(q = <<>>) /\ ~(Len(q) < min_batch_size)

\* a timeout flush that ignores min_batch_size
ShouldFlushNoMin(q) ==
    q[1].elapsed >= timeout \/ q[1].elapsed >= max_wait

\* a timeout flush without the max_wait ceiling
ShouldFlushNoCeiling(q) ==
    q[1].elapsed >= timeout /\ Len(q) >= min_batch_size

\* the timeout loop's should_flush for a non-empty queue
ShouldFlush(q) ==
    LET oldest_elapsed == q[1].elapsed
        timeout_reached == oldest_elapsed >= timeout
        max_wait_reached == oldest_elapsed >= max_wait
        has_min == Len(q) >= min_batch_size
    IN (timeout_reached /\ has_min) \/ max_wait_reached

ChannelHasRoom == Len(channel) < channel_buffer

\* ------------------------------------------------------------------ queue
\* BatchQueue::push up to the send: lock, push, size check, drain, shuffle
PushTx(kind, ck) ==
    /\ lockSend = <<>>
    /\ nextTx' = nextTx + 1
    /\ LET q == Append(pending, QueuedTx(PendingTx(nextTx, kind, ck)))
           len == Len(q)
       IN IF SizeTriggered(len)
          THEN \E txs \in shuffle_txs(Drain(q)) :
                 /\ pending' = <<>>
                 /\ lockSend' = <<[op |-> "push", batch |-> ReadyBatch(nextBatch, txs)]>>
                 /\ nextBatch' = nextBatch + 1
                 /\ ev' = Event("push_wait", nextBatch, len)
          ELSE /\ pending' = q
               /\ ev' = Event("push", 0, len)
               /\ UNCHANGED <<lockSend, nextBatch>>
    /\ UNCHANGED <<channel, rxOpen, loopSend, loopAlive, sent>>

\* a push by a caller other than the submit handler
Push(kind, ck) ==
    /\ PushTx(kind, ck)
    /\ UNCHANGED <<cfgvars, svars, pvars>>

\* BatchQueue::force_flush up to the send
ForceFlushQueue ==
    /\ lockSend = <<>>
    /\ IF ForceAllowed(pending)
       THEN \E txs \in shuffle_txs(Drain(pending)) :
              /\ pending' = <<>>
              /\ lockSend' = <<[op |-> "force_flush", batch |-> ReadyBatch(nextBatch, txs)]>>
              /\ nextBatch' = nextBatch + 1
              /\ ev' = Event("force_flush_wait", nextBatch, Len(pending))
       ELSE /\ ev' = Event("force_flush", 0, 0)
            /\ UNCHANGED <<pending, lockSend, nextBatch>>
    /\ UNCHANGED <<channel, rxOpen, loopSend, loopAlive, nextTx, sent>>

\* force_flush called by the force_prove handler
ForceFlush ==
    /\ ForceFlushQueue
    /\ UNCHANGED <<cfgvars, svars, pvars>>

\* the end of push / force_flush: trigger_tx.send(..).await returns, under the
\* pending lock, and the operation returns to its caller
SendLocked ==
    /\ lockSend # <<>>
    /\ ~rxOpen \/ ChannelHasRoom
    /\ LET s == lockSend[1]
       IN /\ channel' = IF rxOpen THEN Append(channel, s.batch) ELSE channel
          /\ sent' = IF rxOpen THEN Append(sent, s.batch.batch_id) ELSE sent
          /\ ev' = IF s.op = "push"
                   THEN Event("push", s.batch.batch_id, 0)
                   ELSE Event("force_flush", IF rxOpen THEN s.batch.batch_id ELSE 0, 0)
    /\ lockSend' = <<>>
    /\ UNCHANGED <<cfgvars, svars, pending, rxOpen, loopSend, loopAlive, nextTx, nextBatch, pvars>>

\* one iteration of the timeout loop up to the send: the check-and-drain
\* under one acquisition of the pending lock
TimeoutCheck ==
    /\ loopAlive
    /\ loopSend = <<>>
    /\ lockSend = <<>>
    /\ IF pending # <<>> /\ ShouldFlush(pending)
       THEN \E txs \in shuffle_txs(Drain(pending)) :
              /\ pending' = <<>>
              /\ loopSend' = <<ReadyBatch(nextBatch, txs)>>
              /\ nextBatch' = nextBatch + 1
              /\ ev' = Event("timeout_check", nextBatch, 0)
       ELSE /\ ev' = Event("timeout_check", 0, 0)
            /\ UNCHANGED <<pending, loopSend, nextBatch>>
    /\ UNCHANGED <<cfgvars, svars, channel, rxOpen, lockSend, loopAlive, nextTx, sent, pvars>>

\* the timeout loop's trigger_tx.send(ready).await returns; an error breaks the loop
LoopSend ==
    /\ loopSend # <<>>
    /\ ~rxOpen \/ ChannelHasRoom
    /\ channel' = IF rxOpen THEN Append(channel, loopSend[1]) ELSE channel
    /\ sent' = IF rxOpen THEN Append(sent, loopSend[1].batch_id) ELSE sent
    /\ loopAlive' = rxOpen
    /\ loopSend' = <<>>
    /\ ev' = Event("loop_send", IF rxOpen THEN loopSend[1].batch_id ELSE 0, 0)
    /\ UNCHANGED <<cfgvars, svars, pending, rxOpen, lockSend, nextTx, nextBatch, pvars>>

\* one second passes: every enqueued_at.elapsed() grows
Tick ==
    /\ pending' = [i \in 1..Len(pending) |->
                     [pending[i] EXCEPT !.elapsed = Min(@ + 1, AgeCap)]]
    /\ ev' = NoEvent
    /\ UNCHANGED <<cfgvars, svars, channel, rxOpen, lockSend, loopSend, loopAlive,
                   nextTx, nextBatch, sent, pvars>>

\* ------------------------------------------------------------------ store
Some(v) == <<v>>
None == <<>>

Terminal == {"Finalized", "Failed"}

\* a record that does not keep the transaction count
BatchRecordNoCount(id, tx_count) ==
    [id |-> id, status |-> "Pending", tx_count |-> 0, proof_hash |-> None,
     batch_id_onchain |-> None, tx_hash |-> None, created_at |-> now, error |-> None]

\* BatchRecord::new
BatchRecord(id, tx_count) ==
    [id |-> id, status |-> "Pending", tx_count |-> tx_count, proof_hash |-> None,
     batch_id_onchain |-> None, tx_hash |-> None, created_at |-> now, error |-> None]

\* StatusUpdate::default()
StatusUpdate == [proof_hash |-> None, batch_id_onchain |-> None, tx_hash |-> None,
                 error |-> None]

\* InMemoryStore::save_batch: insert, always Ok
save_batch(bs, id, batch) ==
    IF id \in DOMAIN bs THEN [bs EXCEPT ![id] = batch] ELSE bs @@ (id :> batch)

\* InMemoryStore::get_batch
get_batch(id) == IF id \in DOMAIN batches THEN Some(batches[id]) ELSE None

\* InMemoryStore::update_status: Err(NotFound) without a record, else the
\* status and the fields of extra that are Some
update_status(bs, id, status, extra) ==
    IF id \notin DOMAIN bs
    THEN [err |-> Some(<<"store", "batch not found">>), batches |-> bs]
    ELSE [err |-> None,
          batches |-> [bs EXCEPT ![id] =
              [@ EXCEPT !.status = status,
                        !.proof_hash = IF extra.proof_hash # None THEN extra.proof_hash ELSE @,
                        !.batch_id_onchain = IF extra.batch_id_onchain # None
                                             THEN extra.batch_id_onchain ELSE @,
                        !.tx_hash = IF extra.tx_hash # None THEN extra.tx_hash ELSE @,
                        !.error = IF extra.error # None THEN extra.error ELSE @]]]

\* InMemoryStore::save_note
save_note(ns, commitment, record) ==
    IF commitment \in DOMAIN ns THEN [ns EXCEPT ![commitment] = record]
    ELSE ns @@ (commitment :> record)

\* ------------------------------------------------------------------ prover
NoBatch == [batch_id |-> 0, transactions |-> <<>>, idx |-> 0, proof_hash |-> None]

\* what the pool contract answers for the inputs of one withdraw / transfer
ChainAnswers == {"ok", "root_rpc_error", "unknown_root", "nullifier_rpc_error", "spent"}

\* the ProverError::Validation text of the first failing check of one transaction
ValidationText(kind, answer) ==
    CASE answer = "root_rpc_error" -> "root check: rpc error"
      [] answer = "nullifier_rpc_error" -> "nullifier check: rpc error"
      [] answer = "unknown_root" ->
            IF kind = "Withdraw" THEN "unknown Merkle root in withdrawal"
            ELSE "unknown Merkle root in transfer"
      [] answer = "spent" ->
            IF kind = "Withdraw" THEN "nullifier already spent"
            ELSE "nullifier already spent in transfer"

\* the transactions of the batch in process whose inputs are checked on chain
CheckedInputs ==
    {tx.id : tx \in {t \in Range(cur.transactions) : t.kind # "Deposit"}}

\* ProverService::validate_inputs_blocking: the first transaction, in batch
\* order, with a failing check decides; deposits are not checked
validate_inputs_blocking(txs, answers) ==
    LET bad == {i \in 1..Len(txs) :
                  txs[i].kind # "Deposit" /\ answers[txs[i].id] # "ok"}
    IN IF bad = {} THEN None
       ELSE LET i == CHOOSE j \in bad : \A k \in bad : j <= k
            IN Some(<<"validation", ValidationText(txs[i].kind, answers[txs[i].id])>>)

\* extract_withdrawal_recipients: one payout entry per withdraw
extract_withdrawal_recipients(txs) ==
    SelectSeq(txs, LAMBDA tx : tx.kind = "Withdraw")

\* extract_deposit_notes: one DepositNoteInfo per deposit, in batch order
extract_deposit_notes(txs) ==
    SelectSeq(txs, LAMBDA tx : tx.kind = "Deposit")

\* DepositNoteInfo::commitment_key: a hash of owner, asset, amount and the
\* constant blinding; equal fields give equal keys
commitment_key(note_info) == note_info.ck

\* tx_kinds: 0 = Deposit, 1 = Withdraw, 2 = Transfer
tx_kind(tx) == CASE tx.kind = "Deposit" -> 0 [] tx.kind = "Withdraw" -> 1 [] OTHER -> 2

\* ProvenTransaction.new_commitments for the batch: the builder's stream of
\* output commitments, 1 per deposit, 0 per withdraw, 2 per transfer
RECURSIVE new_commitments(_)
new_commitments(txs) ==
    IF txs = <<>> THEN <<>>
    ELSE LET tx == Head(txs)
             out == CASE tx.kind = "Deposit" -> <<(<<tx.id, 1>>)>>
                      [] tx.kind = "Withdraw" -> <<>>
                      [] OTHER -> <<(<<tx.id, 1>>), (<<tx.id, 2>>)>>
         IN out \o new_commitments(Tail(txs))

\* a walk that takes a transfer for one output commitment
extract_deposit_digests_by_one(tx_kinds, commitments) ==
    LET deposits == {i \in DOMAIN tx_kinds : tx_kinds[i] = 0}
        at(j) == CHOOSE i \in deposits : Cardinality({l \in deposits : l <= i}) = j
        ci(i) == Cardinality({l \in 1..(i - 1) : tx_kinds[l] \in {0, 2}})
    IN [j \in 1..Cardinality(deposits) |-> commitments[ci(at(j)) + 1]]

\* ProverService::extract_deposit_digests
RECURSIVE extract_digests_from(_, _, _)
extract_digests_from(kinds, ci, commitments) ==
    IF kinds = <<>> THEN <<>>
    ELSE LET kind == Head(kinds)
         IN CASE kind = 0 ->
                   (IF ci < Len(commitments) THEN <<commitments[ci + 1]>> ELSE <<>>)
                   \o extract_digests_from(Tail(kinds), ci + 1, commitments)
              [] kind = 1 -> extract_digests_from(Tail(kinds), ci, commitments)
              [] kind = 2 -> extract_digests_from(Tail(kinds), ci + 2, commitments)
              [] OTHER -> extract_digests_from(Tail(kinds), ci, commitments)

extract_deposit_digests(tx_kinds, commitments) ==
    extract_digests_from(tx_kinds, 0, commitments)

\* step 7 of process_batch: one NoteRecord per deposit, sentinel Merkle fields
RECURSIVE index_notes(_, _, _, _, _)
index_notes(ns, batch_id, deposit_notes, digests, idx) ==
    IF idx >= Len(deposit_notes) THEN ns
    ELSE LET commitment == commitment_key(deposit_notes[idx + 1])
             record == [commitment |-> commitment,
                        merkle_path |-> [siblings |-> <<>>, index |-> 0],
                        merkle_root |-> 0,
                        batch_id |-> batch_id,
                        commitment_digest |-> IF idx < Len(digests)
                                              THEN Some(digests[idx + 1]) ELSE None,
                        note_index_in_batch |-> idx]
         IN index_notes(save_note(ns, commitment, record), batch_id,
                        deposit_notes, digests, idx + 1)

\* an Err branch that logs the error and leaves the record alone
MarkFailedDropped(bs, id, e) == bs

\* an Err branch that marks the batch without the error text
MarkFailedNoText(bs, id, e) ==
    update_status(bs, id, "Failed", StatusUpdate).batches

\* ProverService::run, the Err branch: the batch is marked Failed with the
\* error text; the result of that update is dropped (let _ =)
MarkFailed(bs, id, e) ==
    update_status(bs, id, "Failed", [StatusUpdate EXCEPT !.error = Some(e)]).batches

\* an error that marks the batch while process_batch goes on
FailKeepsGoing(e) ==
    /\ batches' = MarkFailed(batches, cur.batch_id, e)
    /\ UNCHANGED <<pc, cur, notes, effects>>

\* process_batch returned Err(e): run marks the batch and takes the next one
Fail(e) ==
    /\ batches' = MarkFailed(batches, cur.batch_id, e)
    /\ pc' = "idle"
    /\ cur' = NoBatch
    /\ UNCHANGED <<notes, effects>>

\* the history entry of a received batch: its id and the ids of its transactions
Received(ready) ==
    [batch_id |-> ready.batch_id, ids |-> {tx.id : tx \in Range(ready.transactions)}]

\* a receive that takes the newest message
recv_newest(ch) == [ready |-> Last(ch), rest |-> SubSeq(ch, 1, Len(ch) - 1)]

\* rx.recv() on a non-empty channel: the oldest message and the rest
recv(ch) == [ready |-> Head(ch), rest |-> Tail(ch)]

\* rx.recv() alone, as the queue sees its consumer: the head of the channel
\* is taken and a sender waiting for capacity can proceed
RxRecv ==
    /\ rxOpen
    /\ channel # <<>>
    /\ channel' = recv(channel).rest
    /\ recvd' = Append(recvd, Received(recv(channel).ready))
    /\ ev' = NoEvent
    /\ UNCHANGED <<cfgvars, svars, pending, rxOpen, lockSend, loopSend, loopAlive,
                   nextTx, nextBatch, sent, pc, cur, batches, notes, effects>>

\* rx.recv() returns a ReadyBatch; process_batch saves the initial record and
\* starts the validation worker
ProverRecv ==
    /\ pc = "idle"
    /\ rxOpen
    /\ channel # <<>>
    /\ LET ready == recv(channel).ready
           tx_count == Len(ready.transactions)
       IN /\ batches' = save_batch(batches, ready.batch_id,
                                   BatchRecord(ready.batch_id, tx_count))
          /\ cur' = [NoBatch EXCEPT !.batch_id = ready.batch_id,
                                    !.transactions = ready.transactions]
          /\ recvd' = Append(recvd, Received(ready))
          /\ UNCHANGED effects
    /\ channel' = recv(channel).rest
    /\ pc' = "validating"
    /\ ev' = NoEvent
    /\ UNCHANGED <<cfgvars, svars, pending, rxOpen, lockSend, loopSend, loopAlive,
                   nextTx, nextBatch, sent, notes>>

\* step 1 returns: a join error or a failed check fails the batch, otherwise
\* the record moves to Proving and the proving worker starts
ValidateDone(join_error, answers) ==
    /\ pc = "validating"
    /\ LET r == IF join_error THEN Some(<<"validation", "task join error">>)
                ELSE validate_inputs_blocking(cur.transactions, answers)
           u == update_status(batches, cur.batch_id, "Proving", StatusUpdate)
       IN IF r # None THEN Fail(r[1])
          ELSE IF u.err # None THEN Fail(u.err[1])
          ELSE /\ batches' = u.batches
               /\ pc' = "proving"
               /\ effects' = effects \cup {<<"prove", cur.batch_id, 0>>}
               /\ UNCHANGED <<cur, notes>>
    /\ ev' = NoEvent
    /\ UNCHANGED <<cfgvars, svars, qvars, rxOpen, recvd>>

\* the hex text of hash_batch_public_inputs_for_cairo for the batch's proof
ProofHash(batch_id) == <<"0x", batch_id>>

ProveOutcomes == {"ok", "task join error", "prove error", "hash error"}

\* step 3 returns and the proof is hashed: an error fails the batch, otherwise
\* the record moves to Submitting with the proof hash and the submission starts
ProveDone(outcome) ==
    /\ pc = "proving"
    /\ LET proof_hash == ProofHash(cur.batch_id)
           u == update_status(batches, cur.batch_id, "Submitting",
                              [StatusUpdate EXCEPT !.proof_hash = Some(proof_hash)])
       IN IF outcome # "ok" THEN Fail(<<"proving", outcome>>)
          ELSE IF u.err # None THEN Fail(u.err[1])
          ELSE /\ batches' = u.batches
               /\ pc' = "submitting"
               /\ cur' = [cur EXCEPT !.proof_hash = Some(proof_hash)]
               /\ effects' = effects \cup {<<"submit", cur.batch_id, 0>>}
               /\ UNCHANGED notes
    /\ ev' = NoEvent
    /\ UNCHANGED <<cfgvars, svars, qvars, rxOpen, recvd>>

\* RelayOutcome of run_vm31_relayer_flow for the batch
RelayOutcome(batch_id, proof_hash) ==
    [batch_id |-> <<"onchain", batch_id>>, proof_hash |-> proof_hash]

\* steps 6 and 7: the record moves to Finalized with the outcome's ids, then
\* one note record per deposit is saved
Finalize ==
    LET outcome == RelayOutcome(cur.batch_id, cur.proof_hash[1])
        u == update_status(batches, cur.batch_id, "Finalized",
                 [StatusUpdate EXCEPT !.batch_id_onchain = Some(outcome.batch_id),
                                      !.tx_hash = Some(outcome.proof_hash)])
        txs == cur.transactions
        tx_kinds == [i \in 1..Len(txs) |-> tx_kind(txs[i])]
        deposit_notes == extract_deposit_notes(txs)
        deposit_digests == extract_deposit_digests(tx_kinds, new_commitments(txs))
    IN IF u.err # None THEN Fail(u.err[1])
       ELSE /\ batches' = u.batches
            /\ notes' = index_notes(notes, cur.batch_id, deposit_notes, deposit_digests, 0)
            /\ effects' = effects \cup
                 {<<"note", cur.batch_id, i>> : i \in 0..(Len(deposit_notes) - 1)}
            /\ pc' = "idle"
            /\ cur' = NoBatch

SubmitOutcomes == {"ok", "task join error", "relay error"}

\* step 4 returns: an error fails the batch; otherwise the withdrawals are
\* bridged one by one, or the batch is finalized when it has none
SubmitDone(outcome) ==
    /\ pc = "submitting"
    /\ IF outcome # "ok" THEN Fail(<<"relayer", outcome>>)
       ELSE IF extract_withdrawal_recipients(cur.transactions) # <<>>
       THEN /\ pc' = "bridging"
            /\ cur' = [cur EXCEPT !.idx = 0]
            /\ effects' = effects \cup {<<"bridge", cur.batch_id, 0>>}
            /\ UNCHANGED <<batches, notes>>
       ELSE Finalize
    /\ ev' = NoEvent
    /\ UNCHANGED <<cfgvars, svars, qvars, rxOpen, recvd>>

\* a bridge step that finalizes after the first call
BridgeDoneFirstOnly(ok) ==
    /\ pc = "bridging"
    /\ Finalize
    /\ ev' = NoEvent
    /\ UNCHANGED <<cfgvars, svars, qvars, rxOpen, recvd>>

\* a bridge loop that gives up at the first failed call
BridgeStepStopsOnError(ok) ==
    /\ pc = "bridging"
    /\ IF ~ok THEN Fail(<<"bridge", "bridge call failed">>)
       ELSE IF cur.idx + 1 < Len(extract_withdrawal_recipients(cur.transactions))
       THEN /\ cur' = [cur EXCEPT !.idx = cur.idx + 1]
            /\ effects' = effects \cup {<<"bridge", cur.batch_id, cur.idx + 1>>}
            /\ UNCHANGED <<pc, batches, notes>>
       ELSE Finalize
    /\ ev' = NoEvent
    /\ UNCHANGED <<cfgvars, qvars, rxOpen, recvd>>

\* step 5 of process_batch after bridge_withdrawal(outcome.batch_id, idx)
\* returned: an error is logged only, the loop goes on to the next index and
\* after the last one to step 6
BridgeStep(ok) ==
    /\ pc = "bridging"
    /\ IF cur.idx + 1 < Len(extract_withdrawal_recipients(cur.transactions))
       THEN /\ cur' = [cur EXCEPT !.idx = cur.idx + 1]
            /\ effects' = effects \cup {<<"bridge", cur.batch_id, cur.idx + 1>>}
            /\ UNCHANGED <<pc, batches, notes>>
       ELSE Finalize
    /\ ev' = NoEvent
    /\ UNCHANGED <<cfgvars, qvars, rxOpen, recvd>>

\* bridge_withdrawal(outcome.batch_id, idx) returns
BridgeDone(ok) ==
    /\ BridgeStep(ok)
    /\ UNCHANGED svars

\* the Receiver is dropped (the prover task ends with the runtime): buffered
\* batches are dropped with it and every later send fails
ReceiverDropped ==
    /\ rxOpen
    /\ rxOpen' = FALSE
    /\ channel' = <<>>
    /\ pc' = "stopped"
    /\ ev' = NoEvent
    /\ UNCHANGED <<cfgvars, svars, pending, lockSend, loopSend, loopAlive, nextTx, nextBatch,
                   sent, cur, batches, notes, recvd, effects>>

\* ------------------------------------------------------------------ tokens, windows
IDEMPOTENCY_TTL_SECS == 3600
RATE_LIMIT_EVICTION_SECS == 3600
\* the window_secs submit passes to check_rate
RATE_WINDOW_SECS == 60

\* u64::saturating_sub
saturating_sub(a, b) == IF a >= b THEN a - b ELSE 0

Restrict(f, keys) == IF keys = {} THEN <<>> ELSE [k \in keys |-> f[k]]
Put(f, k, v) == IF k \in DOMAIN f THEN [f EXCEPT ![k] = v] ELSE f @@ (k :> v)

\* idempotency.retain(|_, (_, created)| now.saturating_sub(*created) < IDEMPOTENCY_TTL_SECS)
retain_tokens(m, t) ==
    Restrict(m, {k \in DOMAIN m : saturating_sub(t, m[k].created) < IDEMPOTENCY_TTL_SECS})

\* rate_limits.retain(|_, (_, window_start)| .. < RATE_LIMIT_EVICTION_SECS)
retain_windows(m, t) ==
    Restrict(m, {k \in DOMAIN m :
                   saturating_sub(t, m[k].window_start) < RATE_LIMIT_EVICTION_SECS})

\* the age at which evict_expired drops a Finalized or Failed batch record
BATCH_RETENTION_SECS == 86400

\* a retain that goes by age alone
retain_batches_by_age(bs, t) ==
    Restrict(bs, {b \in DOMAIN bs : saturating_sub(t, bs[b].created_at) < BATCH_RETENTION_SECS})

\* batches.retain(|_, rec| matches!(rec.status, Pending | Proving | Submitting)
\*                         || now.saturating_sub(rec.created_at) < 86400)
retain_batches(bs, t) ==
    Restrict(bs, {b \in DOMAIN bs :
                    \/ bs[b].status \in {"Pending", "Proving", "Submitting"}
                    \/ saturating_sub(t, bs[b].created_at) < BATCH_RETENTION_SECS})

\* a check-and-set whose vacant branch answers without inserting
check_and_set_forgets(m, key, result, t, over_capacity) ==
    LET hit == key \in DOMAIN m /\ saturating_sub(t, m[key].created) < IDEMPOTENCY_TTL_SECS
    IN [outcome |-> IF hit THEN Some(m[key].result) ELSE None,
        idempotency |-> m]

\* a check-and-set whose occupied branch takes the later result
check_and_set_overwrites(m, key, result, t, over_capacity) ==
    LET hit == key \in DOMAIN m /\ saturating_sub(t, m[key].created) < IDEMPOTENCY_TTL_SECS
    IN [outcome |-> IF hit THEN Some(m[key].result) ELSE None,
        idempotency |-> Put(m, key, [result |-> result, created |-> t])]

\* InMemoryStore::check_and_set at time t.  over_capacity is the outcome of
\* count % 100 == 0 && idempotency.len() > MAX_IDEMPOTENCY_ENTRIES, which
\* depends on the call counter and on a map of more than 50,000 entries
check_and_set(m, key, result, t, over_capacity) ==
    LET hit == key \in DOMAIN m /\ saturating_sub(t, m[key].created) < IDEMPOTENCY_TTL_SECS
        stored == IF hit THEN m ELSE Put(m, key, [result |-> result, created |-> t])
    IN [outcome |-> IF hit THEN Some(m[key].result) ELSE None,
        idempotency |-> IF over_capacity THEN retain_tokens(stored, t) ELSE stored]

\* a rate check that admits one call more than the limit
check_rate_off_by_one(m, key, limit, window_secs, t) ==
    LET e0 == IF key \in DOMAIN m THEN m[key] ELSE [count |-> 0, window_start |-> t]
        e1 == IF t - e0.window_start >= window_secs
              THEN [count |-> 0, window_start |-> t] ELSE e0
    IN IF e1.count > limit
       THEN [allowed |-> FALSE, rate_limits |-> Put(m, key, e1)]
       ELSE [allowed |-> TRUE, rate_limits |-> Put(m, key, [e1 EXCEPT !.count = @ + 1])]

\* InMemoryStore::check_rate at time t: or_insert((0, now)), the reset of an
\* expired window, the limit check, the increment
check_rate(m, key, limit, window_secs, t) ==
    LET e0 == IF key \in DOMAIN m THEN m[key] ELSE [count |-> 0, window_start |-> t]
        e1 == IF t - e0.window_start >= window_secs
              THEN [count |-> 0, window_start |-> t] ELSE e0
    IN IF e1.count >= limit
       THEN [allowed |-> FALSE, rate_limits |-> Put(m, key, e1)]
       ELSE [allowed |-> TRUE, rate_limits |-> Put(m, key, [e1 EXCEPT !.count = @ + 1])]

\* ------------------------------------------------------------------ validation
\* a u32 as its two 16-bit halves, a u64 as three base-10^9 digits: the
\* comparisons below are those of the unsigned machine integers
U32(hi, lo) == [hi |-> hi, lo |-> lo]
u32_gt(a, b) == a.hi > b.hi \/ (a.hi = b.hi /\ a.lo > b.lo)
U64(h, m, l) == [h |-> h, m |-> m, l |-> l]
u64_gt(a, b) ==
    \/ a.h > b.h
    \/ a.h = b.h /\ a.m > b.m
    \/ a.h = b.h /\ a.m = b.m /\ a.l > b.l

\* 0x7FFF_FFFF
M31_MODULUS == U32(32767, 65535)
MAX_MERKLE_DEPTH == 32
\* ((1 << 31) - 1) + ((1 << 31) - 1) * (1 << 31) = 4611686018427387903
MAX_NOTE_AMOUNT == U64(4, 611686018, 427387903)

BTC_DENOMINATIONS ==
    <<U64(0, 0, 50000), U64(0, 0, 100000), U64(0, 0, 500000),
      U64(0, 0, 1000000), U64(0, 0, 5000000), U64(0, 0, 10000000)>>
ETH_DENOMINATIONS ==
    <<U64(0, 1000000, 0), U64(0, 5000000, 0), U64(0, 10000000, 0),
      U64(0, 50000000, 0), U64(0, 100000000, 0), U64(0, 500000000, 0)>>
STRK_DENOMINATIONS ==
    <<U64(1, 0, 0), U64(5, 0, 0), U64(10, 0, 0),
      U64(0, 50000000, 0), U64(0, 100000000, 0), U64(0, 500000000, 0)>>
USDC_DENOMINATIONS ==
    <<U64(0, 0, 1000000), U64(0, 0, 5000000), U64(0, 0, 10000000),
      U64(0, 0, 50000000), U64(0, 0, 100000000), U64(0, 0, 500000000)>>
SAGE_DENOMINATIONS ==
    <<U64(0, 100000000, 0), U64(0, 500000000, 0), U64(1, 0, 0),
      U64(5, 0, 0), U64(0, 10000000, 0), U64(0, 50000000, 0)>>

BadRequest(text) == <<"BadRequest", text>>

\* the first Err of a sequence of results evaluated in order with `?`
RECURSIVE FirstErr(_)
FirstErr(results) ==
    IF results = <<>> THEN None
    ELSE IF Head(results) # None THEN Head(results)
    ELSE FirstErr(Tail(results))

\* validate_m31: if val > M31_MODULUS { Err(BadRequest) }
validate_m31(val, field_name) ==
    IF u32_gt(val, M31_MODULUS) THEN Some(BadRequest(field_name)) ELSE None

\* validate_m31_4 / validate_m31_8: the elements in order
validate_m31_n(arr, field_name) ==
    FirstErr([i \in 1..Len(arr) |-> validate_m31(arr[i], field_name)])

validate_amount(amount) ==
    IF amount = U64(0, 0, 0) THEN Some(BadRequest("amount must be > 0"))
    ELSE IF u64_gt(amount, MAX_NOTE_AMOUNT) THEN Some(BadRequest("amount exceeds maximum"))
    ELSE None

\* a whitelist lookup that knows no asset
denominations_for_no_asset(asset_id) == None

\* denominations_for_asset: 0 wBTC, 1 SAGE, 2 ETH, 3 STRK, 4 USDC
denominations_for_asset(asset_id) ==
    CASE asset_id = U32(0, 0) -> Some(BTC_DENOMINATIONS)
      [] asset_id = U32(0, 1) -> Some(SAGE_DENOMINATIONS)
      [] asset_id = U32(0, 2) -> Some(ETH_DENOMINATIONS)
      [] asset_id = U32(0, 3) -> Some(STRK_DENOMINATIONS)
      [] asset_id = U32(0, 4) -> Some(USDC_DENOMINATIONS)
      [] OTHER -> None

\* validate_denomination (validate_btc_denomination is its alias)
validate_denomination(amount, asset_id) ==
    LET denoms == denominations_for_asset(asset_id)
    IN IF denoms # None /\ amount \notin Range(denoms[1])
       THEN Some(BadRequest("Deposits must use standard denominations"))
       ELSE None

validate_merkle_path(p) ==
    IF Len(p.siblings) > MAX_MERKLE_DEPTH
    THEN Some(BadRequest("merkle path depth exceeds maximum"))
    ELSE FirstErr([i \in 1..Len(p.siblings) |->
                     validate_m31_n(p.siblings[i], "merkle_sibling")])

validate_note(n) ==
    FirstErr(<<validate_m31_n(n.owner_pubkey, "note.owner_pubkey"),
               validate_m31(n.asset_id, "note.asset_id"),
               validate_m31(n.amount_lo, "note.amount_lo"),
               validate_m31(n.amount_hi, "note.amount_hi"),
               validate_m31_n(n.blinding, "note.blinding")>>)

validate_input_note(in, name) ==
    FirstErr(<<validate_note(in.note),
               validate_m31_n(in.spending_key, name),
               validate_merkle_path(in.merkle_path)>>)

\* SubmitRequest::validate_and_convert: the Err of the first failing check,
\* or the PendingTx (from_u32_unchecked keeps every value as given)
validate_and_convert(req) ==
    LET err ==
          CASE req.type = "deposit" ->
                 FirstErr(<<validate_amount(req.amount),
                            validate_denomination(req.amount, req.asset_id),
                            validate_m31_n(req.recipient_pubkey, "recipient_pubkey"),
                            validate_m31_n(req.recipient_viewing_key,
                                           "recipient_viewing_key")>>)
            [] req.type = "withdraw" ->
                 FirstErr(<<validate_amount(req.amount),
                            validate_note(req.note),
                            validate_m31_n(req.spending_key, "spending_key"),
                            validate_merkle_path(req.merkle_path),
                            validate_m31_n(req.merkle_root, "merkle_root"),
                            validate_m31_n(req.withdrawal_binding, "withdrawal_binding")>>)
            [] req.type = "transfer" ->
                 FirstErr(<<validate_amount(req.amount),
                            validate_m31_n(req.recipient_pubkey, "recipient_pubkey"),
                            validate_m31_n(req.recipient_viewing_key,
                                           "recipient_viewing_key"),
                            validate_m31_n(req.sender_viewing_key, "sender_viewing_key"),
                            validate_input_note(req.input_notes[1], "input[0].spending_key"),
                            validate_input_note(req.input_notes[2], "input[1].spending_key"),
                            validate_m31_n(req.merkle_root, "merkle_root")>>)
        kind == CASE req.type = "deposit" -> "Deposit"
                  [] req.type = "withdraw" -> "Withdraw"
                  [] req.type = "transfer" -> "Transfer"
        ck == IF req.type = "deposit"
              THEN <<req.recipient_pubkey, req.asset_id, req.amount>> ELSE <<>>
    IN [err |-> err, kind |-> kind, ck |-> ck]

\* ------------------------------------------------------------------ submit
\* Duration::from_millis(5), the minimum processing time of submit
MIN_PROCESSING_MS == 5
MAX_PENDING_TXS == 1024

\* the first bytes of serde_json::to_vec(req), and the rest: the tag, the
\* amount and the asset id come first
to_json(req) == [head |-> <<req.type, req.amount, req.asset_id>>, tail |-> req]

\* the envelope a client builds for req: the stream cipher keyed by the
\* ephemeral key and the nonce, applied to the JSON text
seal(req, epk, nonce) ==
    [type |-> "encrypted", ephemeral_pubkey |-> epk, nonce |-> nonce,
     ciphertext |-> [head |-> <<epk, nonce, to_json(req).head>>,
                     tail |-> <<epk, nonce, to_json(req).tail>>],
     version |-> 1]

\* EncryptedSubmitRequest::decrypt: Ok(req) for an authentic envelope
decrypt(enc) ==
    IF enc.version # 1
    THEN [err |-> Some(BadRequest("unsupported ECIES version")), req |-> None]
    ELSE IF /\ Len(enc.ciphertext.tail) = 3
            /\ enc = seal(enc.ciphertext.tail[3], enc.ephemeral_pubkey, enc.nonce)
    THEN [err |-> None, req |-> Some(enc.ciphertext.tail[3])]
    ELSE [err |-> Some(BadRequest("ECIES decryption failed")), req |-> None]

\* SubmitRequest::idempotency_key: the SHA-256 of the JSON text of the request;
\* EncryptedSubmitRequest::idempotency_key: "enc:" and the SHA-256 of the
\* ephemeral key, the nonce and the first 64 characters of the ciphertext
idempotency_key(body) ==
    IF body.type = "encrypted"
    THEN <<"enc", body.ephemeral_pubkey, body.nonce, body.ciphertext.head>>
    ELSE <<"sha256", to_json(body)>>

\* AppError::status_code
status_code(kind) ==
    CASE kind = "BadRequest" -> 400
      [] kind = "Unauthorized" -> 401
      [] kind = "RateLimited" -> 429
      [] kind = "BatchFull" -> 503
      [] OTHER -> 500

NoResponse ==
    [id |-> 0, code |-> 0, status |-> "none", idempotency_key |-> None,
     cached_result |-> None, env_ms |-> None]

\* the response of an Err(AppError) return; env_ms is the time since
\* submission_start when the handler has passed it
ErrorResponse(id, kind, env_ms) ==
    [NoResponse EXCEPT !.id = id, !.code = status_code(kind), !.status = kind,
                       !.env_ms = env_ms]

\* the locals of a handler that passed require_auth
\* an X-Forwarded-For header: whether to_str() succeeds on it, and its
\* comma-separated entries, each with its surrounding blanks and its text (0
\* for no text); -1 is the text "unknown"
XffEntry(blanks, text) == [blanks |-> blanks, text |-> text]
XffHeader(is_text, entries) == [is_text |-> is_text, entries |-> entries]
trim(entry) == entry.text
UnknownIp == 0 - 1

\* a client address taken from the header whoever the peer is
extract_client_ip_any(xff, addr, proxies) ==
    IF xff # None /\ xff[1].is_text /\ trim(Head(xff[1].entries)) # 0
    THEN trim(Head(xff[1].entries))
    ELSE IF addr = None THEN UnknownIp ELSE addr[1]

\* extract_client_ip: the first entry of X-Forwarded-For, trimmed, when the
\* peer is one of the trusted proxies and the entry is not empty; else the peer
extract_client_ip(xff, addr, proxies) ==
    LET direct_ip == addr
    IN IF /\ proxies # {}
          /\ direct_ip # None
          /\ direct_ip[1] \in proxies
          /\ xff # None
          /\ xff[1].is_text
          /\ trim(Head(xff[1].entries)) # 0
       THEN trim(Head(xff[1].entries))
       ELSE IF direct_ip = None THEN UnknownIp ELSE direct_ip[1]

\* the X-Forwarded-For header of a submission
XffOf(sub) == IF "xff" \in DOMAIN sub THEN sub.xff ELSE None

Handler(sub) ==
    [pc |-> "key_rate", api_key |-> sub.api_key, ip |-> sub.ip, xff |-> XffOf(sub),
     body |-> sub.body,
     req |-> None, idem_key |-> None, env_ms |-> None, checked_at |-> None,
     batch_id |-> 0]

Finish(r, response) ==
    /\ reqs' = Restrict(reqs, DOMAIN reqs \ {r})
    /\ resp' = response

Goto(r, pc_next) ==
    /\ reqs' = [reqs EXCEPT ![r].pc = pc_next]
    /\ resp' = NoResponse

\* RelayerConfig::is_api_key_valid: key 0 stands for a missing or unknown key
is_api_key_valid(key) == key # 0

confvars == <<cfgvars, rate_limit_per_min, legacy_plaintext_allowed, relayer_private_key>>
queuevars == <<qvars, rxOpen>>

\* submit starts: require_auth
Authenticate(sub) ==
    /\ nextReq' = nextReq + 1
    /\ IF ~is_api_key_valid(sub.api_key)
       THEN /\ resp' = ErrorResponse(nextReq, "Unauthorized", None)
            /\ UNCHANGED reqs
       ELSE /\ reqs' = reqs @@ (nextReq :> Handler(sub))
            /\ resp' = NoResponse
    /\ ev' = NoEvent
    /\ UNCHANGED <<confvars, tvars, hvars, queuevars, pvars, now, idempotency, rate_limits, enqueued>>

\* check_rate("key:{api_key}", rate_limit_per_min, 60)
KeyRate(r) ==
    /\ reqs[r].pc = "key_rate"
    /\ LET c == check_rate(rate_limits, <<"key", reqs[r].api_key>>, rate_limit_per_min,
                           RATE_WINDOW_SECS, now)
       IN /\ rate_limits' = c.rate_limits
          /\ IF ~c.allowed THEN Finish(r, ErrorResponse(r, "RateLimited", None))
             ELSE Goto(r, "ip_rate")
    /\ ev' = NoEvent
    /\ UNCHANGED <<confvars, tvars, hvars, queuevars, pvars, now, idempotency, nextReq, enqueued>>

\* extract_client_ip and check_rate("ip:{client_ip}", rate_limit_per_min * 3, 60)
IpRate(r) ==
    /\ reqs[r].pc = "ip_rate"
    /\ LET client_ip == extract_client_ip(reqs[r].xff, Some(reqs[r].ip), trusted_proxies)
           c == check_rate(rate_limits, <<"ip", client_ip>>, rate_limit_per_min * 3,
                           RATE_WINDOW_SECS, now)
       IN /\ rate_limits' = c.rate_limits
          /\ IF ~c.allowed THEN Finish(r, ErrorResponse(r, "RateLimited", None))
             ELSE Goto(r, "admission")
    /\ ev' = NoEvent
    /\ UNCHANGED <<confvars, tvars, hvars, queuevars, pvars, now, idempotency, nextReq, enqueued>>

\* an admission check that lets the queue grow to the limit and one more
AdmitsLate(pending_count) == ~(pending_count > MAX_PENDING_TXS)

\* the queue capacity check: pending >= MAX_PENDING_TXS is BatchFull
Admits(pending_count) == ~(pending_count >= MAX_PENDING_TXS)

\* queue.pending_count() under the pending lock, and the capacity check
Admission(r) ==
    /\ reqs[r].pc = "admission"
    /\ lockSend = <<>>
    /\ IF ~Admits(Len(pending)) THEN Finish(r, ErrorResponse(r, "BatchFull", None))
       ELSE Goto(r, "envelope")
    /\ ev' = NoEvent
    /\ UNCHANGED <<confvars, tvars, hvars, queuevars, pvars, now, idempotency, rate_limits, nextReq,
                   enqueued>>

\* an envelope step that sets the idempotency token before the result of the
\* resolution is looked at
EnvelopeTokenFirst(r, d) ==
    /\ reqs[r].pc = "envelope"
    /\ LET body == reqs[r].body
           key == idempotency_key(body)
           plain == IF body.type = "encrypted"
                    THEN IF relayer_private_key = None
                         THEN [err |-> Some(<<"Internal", "ECIES not configured">>),
                               req |-> None]
                         ELSE decrypt(body)
                    ELSE IF ~legacy_plaintext_allowed
                         THEN [err |-> Some(BadRequest("plaintext submissions disabled")),
                               req |-> None]
                         ELSE [err |-> None, req |-> Some(body)]
           elapsed == IF d < MIN_PROCESSING_MS THEN d + (MIN_PROCESSING_MS - d) ELSE d
       IN /\ idempotency' = Put(idempotency, key, [result |-> "pending", created |-> now])
          /\ IF plain.err # None
             THEN Finish(r, ErrorResponse(r, plain.err[1][1], Some(d)))
             ELSE /\ reqs' = [reqs EXCEPT ![r].pc = "idempotency", ![r].req = plain.req,
                                          ![r].idem_key = Some(key),
                                          ![r].env_ms = Some(elapsed)]
                  /\ resp' = NoResponse
    /\ ev' = NoEvent
    /\ UNCHANGED <<confvars, tvars, hvars, queuevars, pvars, now, rate_limits, nextReq, enqueued>>

\* the envelope is resolved d milliseconds after submission_start; an Err
\* returns at once, otherwise the handler sleeps up to the minimum time
Envelope(r, d) ==
    /\ reqs[r].pc = "envelope"
    /\ LET body == reqs[r].body
           key == idempotency_key(body)
           plain == IF body.type = "encrypted"
                    THEN IF relayer_private_key = None
                         THEN [err |-> Some(<<"Internal", "ECIES not configured">>),
                               req |-> None]
                         ELSE decrypt(body)
                    ELSE IF ~legacy_plaintext_allowed
                         THEN [err |-> Some(BadRequest("plaintext submissions disabled")),
                               req |-> None]
                         ELSE [err |-> None, req |-> Some(body)]
           elapsed == IF d < MIN_PROCESSING_MS THEN d + (MIN_PROCESSING_MS - d) ELSE d
       IN IF plain.err # None
          THEN Finish(r, ErrorResponse(r, plain.err[1][1], Some(d)))
          ELSE /\ reqs' = [reqs EXCEPT ![r].pc = "idempotency", ![r].req = plain.req,
                                       ![r].idem_key = Some(key),
                                       ![r].env_ms = Some(elapsed)]
               /\ resp' = NoResponse
    /\ ev' = NoEvent
    /\ UNCHANGED <<confvars, tvars, hvars, queuevars, pvars, now, idempotency, rate_limits, nextReq,
                   enqueued>>

\* check_and_set(&idem_key, "pending"): a hit is answered 200 "duplicate"
Idempotency(r, over_capacity) ==
    /\ reqs[r].pc = "idempotency"
    /\ LET key == reqs[r].idem_key[1]
           c == check_and_set(idempotency, key, "pending", now, over_capacity)
       IN /\ idempotency' = c.idempotency
          /\ IF c.outcome # None
             THEN Finish(r, [NoResponse EXCEPT !.id = r, !.code = 200,
                                               !.status = "duplicate",
                                               !.cached_result = c.outcome,
                                               !.idempotency_key = Some(key),
                                               !.env_ms = reqs[r].env_ms])
             ELSE /\ reqs' = [reqs EXCEPT ![r].pc = "validate",
                                          ![r].checked_at = Some(now)]
                  /\ resp' = NoResponse
    /\ ev' = NoEvent
    /\ UNCHANGED <<confvars, tvars, hvars, queuevars, pvars, now, rate_limits, nextReq, enqueued>>

\* validate_and_convert()? and queue.push(pending_tx) up to the send
ValidateAndPush(r) ==
    /\ reqs[r].pc = "validate"
    /\ LET v == validate_and_convert(reqs[r].req[1])
       IN IF v.err # None
          THEN /\ Finish(r, ErrorResponse(r, v.err[1][1], reqs[r].env_ms))
               /\ ev' = NoEvent
               /\ UNCHANGED <<queuevars, enqueued>>
          ELSE /\ PushTx(v.kind, v.ck)
               /\ enqueued' = enqueued \cup
                     {[key |-> reqs[r].idem_key[1], at |-> reqs[r].checked_at[1]]}
               /\ IF SizeTriggered(Len(pending) + 1)
                  THEN /\ reqs' = [reqs EXCEPT ![r].pc = "sending",
                                               ![r].batch_id = nextBatch]
                       /\ resp' = NoResponse
                  ELSE Finish(r, [NoResponse EXCEPT !.id = r, !.code = 202,
                                                    !.status = "queued",
                                                    !.idempotency_key = reqs[r].idem_key,
                                                    !.env_ms = reqs[r].env_ms])
    /\ UNCHANGED <<confvars, tvars, hvars, pvars, now, idempotency, rate_limits, nextReq>>

\* push returned Some(batch_id): the 202 "batch_triggered" response
PushReturn(r) ==
    /\ reqs[r].pc = "sending"
    /\ IF lockSend = <<>> THEN TRUE ELSE lockSend[1].batch.batch_id # reqs[r].batch_id
    /\ Finish(r, [NoResponse EXCEPT !.id = r, !.code = 202, !.status = "batch_triggered",
                                    !.idempotency_key = reqs[r].idem_key,
                                    !.env_ms = reqs[r].env_ms])
    /\ ev' = NoEvent
    /\ UNCHANGED <<confvars, tvars, hvars, queuevars, pvars, now, idempotency, rate_limits, nextReq,
                   enqueued>>

\* InMemoryStore::evict_expired, run by the eviction task: expired tokens and
\* windows go, and so do the terminal batch records older than a day
EvictExpired ==
    /\ idempotency' = retain_tokens(idempotency, now)
    /\ rate_limits' = retain_windows(rate_limits, now)
    /\ batches' = retain_batches(batches, now)
    /\ ev' = NoEvent
    /\ resp' = NoResponse
    /\ UNCHANGED <<confvars, tvars, hvars, queuevars, pc, cur, notes, recvd, effects, now, reqs,
                   nextReq, enqueued>>

\* the instants the clock is looked at: the last second and the end of a
\* rate window and of a token lifetime that started at 0
ClockPoints ==
    {0, RATE_WINDOW_SECS - 1, RATE_WINDOW_SECS,
     IDEMPOTENCY_TTL_SECS - 1, IDEMPOTENCY_TTL_SECS}

\* the milliseconds an envelope resolution takes: none, the minimum
\* processing time, and the longest explored
EnvelopeMs == {0, MIN_PROCESSING_MS, MaxEnvelopeMs}

\* time passes: the wall clock moves to t and every queued transaction ages
Advance(t) ==
    /\ t > now
    /\ now' = t
    /\ pending' = [i \in 1..Len(pending) |->
                     [pending[i] EXCEPT !.elapsed = Min(@ + (t - now), AgeCap)]]
    /\ ev' = NoEvent
    /\ resp' = NoResponse
    /\ UNCHANGED <<confvars, tvars, hvars, channel, rxOpen, lockSend, loopSend, loopAlive, nextTx,
                   nextBatch, sent, pvars, idempotency, rate_limits, reqs, nextReq,
                   enqueued>>

\* ------------------------------------------------------------------ store callers
TokenKeys == 1..MaxTokenKeys
\* the results of test_in_memory_idempotency
TokenResults == {"batch-1", "batch-2"}

\* a call of IdempotencyStore::check_and_set and what it returned; occupied
\* tells whether the map held an entry for the key when the call came
CheckAndSet(key, result, over_capacity) ==
    LET c == check_and_set(idempotency, key, result, now, over_capacity)
    IN /\ idempotency' = c.idempotency
       /\ ev' = [op |-> "check_and_set", key |-> key, result |-> result,
                 outcome |-> c.outcome, occupied |-> key \in DOMAIN idempotency]
       /\ resp' = NoResponse
       /\ UNCHANGED <<confvars, tvars, hvars, queuevars, pvars, now, rate_limits, reqs, nextReq,
                      enqueued>>

\* a call of RateLimitStore::check_rate on the in-memory store and its answer
CheckRate(key, limit, window_secs) ==
    LET c == check_rate(rate_limits, key, limit, window_secs, now)
    IN /\ rate_limits' = c.rate_limits
       /\ ev' = [op |-> "check_rate", key |-> key, allowed |-> c.allowed]
       /\ resp' = NoResponse
       /\ UNCHANGED <<confvars, tvars, hvars, queuevars, pvars, now, idempotency, reqs,
                      nextReq, enqueued>>

\* RedisStore::check_rate at time t: INCR creates a missing or expired key
\* with 1, EXPIRE sets the key to expire window_secs from now on every call,
\* and the answer is count <= limit
redis_check_rate(m, key, limit, window_secs, t) ==
    LET live == key \in DOMAIN m /\ t < m[key].expires_at
        count == (IF live THEN m[key].count ELSE 0) + 1
    IN [allowed |-> count <= limit,
        redis |-> Put(m, key, [count |-> count, expires_at |-> t + window_secs])]

\* the same call on both stores, and the two answers
CheckRateBoth(key, limit, window_secs) ==
    LET c == check_rate(rate_limits, key, limit, window_secs, now)
        r == redis_check_rate(redis, key, limit, window_secs, now)
    IN /\ r.redis[key].count <= MaxRedisCount
       /\ rate_limits' = c.rate_limits
       /\ redis' = r.redis
       /\ ev' = [op |-> "check_rate", key |-> key, allowed |-> c.allowed,
                 redis_allowed |-> r.allowed]
       /\ resp' = NoResponse
       /\ UNCHANGED <<confvars, tvars, shutdown, view, bridge, trusted_proxies, queuevars,
                      pvars, now, idempotency, reqs, nextReq, enqueued>>

\* ------------------------------------------------------------------ tree sync
\* commitment digests are the pairs new_commitments yields; ForeignDigest is
\* the commitment of a note this relayer did not prove
ForeignDigest == <<0, 2>>
DigestCode(d) == 2 * d[1] + d[2]
HashBase == 2 * MaxTreeTxs + 3

\* TreeSync::root: the authenticated root of the leaves appended so far (the
\* hash is collision free: the root determines the leaves and their order)
RECURSIVE root_from(_, _)
root_from(acc, leaves) ==
    IF leaves = <<>> THEN acc
    ELSE root_from(acc * HashBase + DigestCode(Head(leaves)), Tail(leaves))
tree_root(leaves) == root_from(0, leaves)

\* a lookup that answers leaf 0 whenever the tree is not empty
find_commitment_first(leaves, d) ==
    IF leaves = <<>> THEN None ELSE Some(0)

\* TreeSync::find_commitment: the index of the leaf, from 0
find_commitment(leaves, d) ==
    LET at == {i \in 1..Len(leaves) : leaves[i] = d}
    IN IF at = {} THEN None
       ELSE Some((CHOOSE i \in at : \A j \in at : i <= j) - 1)

\* TreeSync::prove(leaf_index): the authentication path of the leaf, which is
\* what is needed besides the leaf to recompute the root
prove(leaves, leaf_index) ==
    [siblings |-> [i \in 1..(Len(leaves) - 1) |->
                     IF i <= leaf_index THEN leaves[i] ELSE leaves[i + 1]],
     index |-> leaf_index]

\* the verification relation of the tree: the root recomputed from the leaf
\* and its path equals root
verify(siblings, leaf, index, root) ==
    /\ index <= Len(siblings)
    /\ tree_root(SubSeq(siblings, 1, index) \o <<leaf>>
                 \o SubSeq(siblings, index + 1, Len(siblings))) = root

\* the text of a commitment in a URL: what it encodes and how many hex
\* characters it has.  commitment_key formats a u64 as 16 hex characters, a
\* digest of 8 u32 takes 64
KeyHex(ck) == [len |-> 16, of |-> <<"key", ck>>]
DigestHex(d) == [len |-> 64, of |-> <<"digest", d>>]
\* the empty text, and a text of 129 hex characters
MalformedTexts == {[len |-> 0, of |-> <<"none", 0>>], [len |-> 129, of |-> <<"none", 0>>]}

\* a parser that takes the 16 characters of a note key for a digest
parse_commitment_hex_any(hex) ==
    IF hex.len = 64 THEN Some(hex.of[2])
    ELSE IF hex.len = 16 THEN Some(ForeignDigest)
    ELSE None

\* parse_commitment_hex: exactly 64 hex characters give a digest
parse_commitment_hex(hex) ==
    IF hex.len # 64 THEN None ELSE Some(hex.of[2])

\* InMemoryStore::get_note: the record saved under this text
get_note(ns, commitment) ==
    IF commitment.of[1] = "key" /\ commitment.of[2] \in DOMAIN ns
    THEN Some(ns[commitment.of[2]]) ELSE None

\* InMemoryStore::list_pending_notes
list_pending_notes(ns) == {ns[k] : k \in {c \in DOMAIN ns : ns[c].merkle_root = 0}}

\* the proof of TreeSyncService::get_proof and backfill_pending for digest d
ProofResult(leaves, d) ==
    LET leaf_index == find_commitment(leaves, d)
    IN IF leaf_index = None THEN None
       ELSE LET proof == prove(leaves, leaf_index[1])
            IN Some([siblings |-> proof.siblings, index |-> proof.index,
                     root |-> tree_root(leaves)])

\* TreeSyncService::get_proof
get_proof(commitment_hex) ==
    LET digest == parse_commitment_hex(commitment_hex)
    IN IF digest = None THEN None ELSE ProofResult(tree_sync[1], digest[1])

SyncerIdle == [pc |-> "idle", taken |-> <<>>, pending |-> {}]
\* asked is the text the answered request carried; turn tells one answer
\* from the one before
NoAnswer ==
    [status |-> "none", commitment |-> None, merkle_path |-> None, merkle_root |-> None,
     batch_id |-> None, asked |-> None, turn |-> 0]

\* the tree of a service that has not synced, no lookup in progress
InitTree ==
    /\ tree_sync = Some(<<>>)
    /\ chain = <<>>
    /\ syncer = SyncerIdle
    /\ lookup = None
    /\ reply = NoAnswer

treeframe == <<cfgvars, qvars, rxOpen, pc, cur, batches, recvd, effects,
               rate_limit_per_min, legacy_plaintext_allowed, relayer_private_key, now,
               idempotency, rate_limits, reqs, nextReq, resp, enqueued, hvars>>

\* the pool contract emits NoteInserted for the commitment d: one of a stored
\* record, or one of somebody else
NoteInserted(d) ==
    /\ Len(chain) < MaxLeaves
    /\ d \in {ForeignDigest} \cup
             {notes[k].commitment_digest[1] :
                k \in {c \in DOMAIN notes : notes[c].commitment_digest # None}}
    /\ chain' = Append(chain, d)
    /\ ev' = NoEvent
    /\ reply' = NoAnswer
    /\ UNCHANGED <<treeframe, notes, tree_sync, syncer, lookup>>

\* sync_once takes the tree out of the mutex and leaves TreeSync::new() there
SyncTake ==
    /\ tree_sync # None
    /\ syncer.pc = "idle"
    /\ syncer' = [syncer EXCEPT !.pc = "syncing", !.taken = tree_sync[1]]
    /\ tree_sync' = Some(<<>>)
    /\ ev' = NoEvent
    /\ reply' = NoAnswer
    /\ UNCHANGED <<treeframe, notes, chain, lookup>>

\* the blocking sync returns: the events up to the n-th are in the tree, which
\* is put back; a join error returns before that and the empty tree stays.
\* backfill_pending follows in either case and lists the pending records
SyncPut(n, join_error) ==
    /\ syncer.pc = "syncing"
    /\ n \in Len(syncer.taken)..Len(chain)
    /\ LET pending_notes == list_pending_notes(notes)
       IN /\ tree_sync' = IF join_error THEN tree_sync ELSE Some(SubSeq(chain, 1, n))
          /\ syncer' = IF pending_notes = {} THEN SyncerIdle
                       ELSE [pc |-> "backfill", taken |-> <<>>, pending |-> pending_notes]
    /\ ev' = NoEvent
    /\ reply' = NoAnswer
    /\ UNCHANGED <<treeframe, notes, chain, lookup>>

\* a backfill turn that stores the path and leaves the sentinel root
BackfillKeepsRoot(note) ==
    /\ syncer.pc = "backfill"
    /\ note \in syncer.pending
    /\ LET proof == IF note.commitment_digest = None THEN None
                    ELSE ProofResult(tree_sync[1], note.commitment_digest[1])
           updated == [note EXCEPT !.merkle_path = [siblings |-> proof[1].siblings,
                                                     index |-> proof[1].index]]
           rest == syncer.pending \ {note}
       IN /\ notes' = IF proof = None THEN notes
                      ELSE save_note(notes, note.commitment, updated)
          /\ syncer' = IF rest = {} THEN SyncerIdle ELSE [syncer EXCEPT !.pending = rest]
    /\ ev' = NoEvent
    /\ reply' = NoAnswer
    /\ UNCHANGED <<treeframe, chain, tree_sync, lookup>>

\* one turn of the loop of backfill_pending, which holds the tree lock: the
\* listed record gets the proof of its commitment_digest and is saved under
\* its commitment, or is skipped
Backfill(note) ==
    /\ syncer.pc = "backfill"
    /\ note \in syncer.pending
    /\ LET proof == IF note.commitment_digest = None THEN None
                    ELSE ProofResult(tree_sync[1], note.commitment_digest[1])
           updated == [note EXCEPT !.merkle_path = [siblings |-> proof[1].siblings,
                                                     index |-> proof[1].index],
                                   !.merkle_root = proof[1].root]
           rest == syncer.pending \ {note}
       IN /\ notes' = IF proof = None THEN notes
                      ELSE save_note(notes, note.commitment, updated)
          /\ syncer' = IF rest = {} THEN SyncerIdle ELSE [syncer EXCEPT !.pending = rest]
    /\ ev' = NoEvent
    /\ reply' = NoAnswer
    /\ UNCHANGED <<treeframe, chain, tree_sync, lookup>>

\* the 200 answers of get_merkle_path
StoredAnswer(note) ==
    [NoAnswer EXCEPT !.status = "ok", !.commitment = Some(KeyHex(note.commitment)),
                     !.merkle_path = Some(note.merkle_path),
                     !.merkle_root = Some(note.merkle_root),
                     !.batch_id = Some(note.batch_id)]
ProofAnswer(commitment, proof, batch_id) ==
    [NoAnswer EXCEPT !.status = "ok", !.commitment = Some(commitment),
                     !.merkle_path = Some([siblings |-> proof.siblings,
                                           index |-> proof.index]),
                     !.merkle_root = Some(proof.root), !.batch_id = batch_id]
PendingAnswer(note) ==
    [NoAnswer EXCEPT !.status = "pending_sync", !.commitment = Some(KeyHex(note.commitment)),
                     !.batch_id = Some(note.batch_id)]
ErrorAnswer(kind) == [NoAnswer EXCEPT !.status = kind]

\* the response a, sent to the request for commitment
Answered(a, commitment) ==
    [a EXCEPT !.asked = Some(commitment), !.turn = 1 - reply.turn]

\* get_merkle_path up to the tree lock of get_proof: require_auth, the format
\* check, get_note, and the answers that need no tree
GetMerklePath(api_key, commitment) ==
    /\ lookup = None
    /\ LET record == get_note(notes, commitment)
           wait == /\ tree_sync # None
                   /\ parse_commitment_hex(commitment) # None
       IN IF ~is_api_key_valid(api_key)
          THEN reply' = Answered(ErrorAnswer("Unauthorized"), commitment) /\ UNCHANGED lookup
          ELSE IF commitment.len = 0 \/ commitment.len > 128
          THEN reply' = Answered(ErrorAnswer("BadRequest"), commitment) /\ UNCHANGED lookup
          ELSE IF record # None /\ record[1].merkle_root # 0
          THEN reply' = Answered(StoredAnswer(record[1]), commitment) /\ UNCHANGED lookup
          ELSE IF wait
          THEN /\ lookup' = Some([commitment |-> commitment, note |-> record])
               /\ reply' = NoAnswer
          ELSE IF record # None
          THEN reply' = Answered(PendingAnswer(record[1]), commitment) /\ UNCHANGED lookup
          ELSE reply' = Answered(ErrorAnswer("NotFound"), commitment) /\ UNCHANGED lookup
    /\ ev' = NoEvent
    /\ UNCHANGED <<treeframe, notes, chain, tree_sync, syncer>>

\* get_proof got the tree lock: a proof found is written to the record the
\* handler read, if it read one, and returned
GetProof ==
    /\ lookup # None
    /\ syncer.pc # "backfill"
    /\ LET commitment == lookup[1].commitment
           record == lookup[1].note
           proof == get_proof(commitment)
           updated == [record[1] EXCEPT !.merkle_path = [siblings |-> proof[1].siblings,
                                                          index |-> proof[1].index],
                                        !.merkle_root = proof[1].root]
       IN IF proof # None /\ record # None
          THEN /\ notes' = save_note(notes, commitment.of[2], updated)
               /\ reply' = Answered(ProofAnswer(KeyHex(updated.commitment), proof[1],
                                                Some(updated.batch_id)), commitment)
          ELSE IF proof # None
          THEN /\ reply' = Answered(ProofAnswer(commitment, proof[1], None), commitment)
               /\ UNCHANGED notes
          ELSE IF record # None
          THEN reply' = Answered(PendingAnswer(record[1]), commitment) /\ UNCHANGED notes
          ELSE reply' = Answered(ErrorAnswer("NotFound"), commitment) /\ UNCHANGED notes
    /\ lookup' = None
    /\ ev' = NoEvent
    /\ UNCHANGED <<treeframe, chain, tree_sync, syncer>>

\* ------------------------------------------------------------------ bridge
MAX_BRIDGE_RETRIES == 3
RETRY_BACKOFF_MS == 2000

\* a batch id text, by what bridge_withdrawal reads of it: "malformed" stands
\* for a text with a character outside [A-Za-z0-9-]
BridgeIdOk(batch_id) == batch_id[1] # "malformed"

\* what the sncast command did: spawned tells whether it could be started,
\* success its exit status, stderr the phrases its stderr contains and
\* tx_hash the value of a transaction_hash line of its stdout, if there is one
CommandOutput(spawned, success, stderr, tx_hash) ==
    [spawned |-> spawned, success |-> success, stderr |-> stderr, tx_hash |-> tx_hash]

\* a try_bridge that does not look for the already-bridged markers
try_bridge_unmarked(output) ==
    IF ~output.spawned THEN <<"Err", "Execution", "sncast spawn failed">>
    ELSE IF ~output.success THEN <<"Err", "OnChain", "invocation failed">>
    ELSE <<"Ok", IF output.tx_hash # None THEN output.tx_hash[1] ELSE "unknown">>

\* BridgeService::try_bridge on the output of the command
try_bridge(output) ==
    IF ~output.spawned THEN <<"Err", "Execution", "sncast spawn failed">>
    ELSE IF ~output.success
    THEN IF "already bridged" \in output.stderr \/ "bridge_key exists" \in output.stderr
         THEN <<"Err", "AlreadyBridged", "">>
         ELSE <<"Err", "OnChain",
                IF "nonce" \in output.stderr THEN "nonce conflict"
                ELSE IF "insufficient" \in output.stderr \/ "balance" \in output.stderr
                THEN "insufficient gas"
                ELSE IF "timeout" \in output.stderr \/ "connection" \in output.stderr
                THEN "rpc timeout"
                ELSE "invocation failed">>
    ELSE <<"Ok", IF output.tx_hash # None THEN output.tx_hash[1] ELSE "unknown">>

RECURSIVE Pow2(_)
Pow2(n) == IF n = 0 THEN 1 ELSE 2 * Pow2(n - 1)

\* a backoff that does not grow
BackoffFlat(attempt) == RETRY_BACKOFF_MS

\* RETRY_BACKOFF_MS * 2u64.pow(attempt)
Backoff(attempt) == RETRY_BACKOFF_MS * Pow2(attempt)

\* no call of bridge_withdrawal in progress; log is the history of the
\* command invocations and sleeps of the call in progress or last returned,
\* calls the history of the calls that returned
BridgeIdle ==
    [pc |-> "idle", batch_id |-> None, idx |-> 0, attempt |-> 0, log |-> <<>>,
     result |-> None, calls |-> <<>>]

bridgeframe == <<hostframe, qvars, shutdown, view>>

\* bridge_withdrawal is called: the batch id is validated before the loop
BridgeCall(batch_id, withdrawal_idx) ==
    /\ bridge.pc = "idle"
    /\ bridge' = IF ~BridgeIdOk(batch_id)
                 THEN [bridge EXCEPT !.pc = "returned", !.batch_id = Some(batch_id),
                                     !.idx = withdrawal_idx, !.attempt = 0, !.log = <<>>,
                                     !.result = Some(<<"Err", "Validation",
                                                       "invalid batch_id format">>)]
                 ELSE [bridge EXCEPT !.pc = "try", !.batch_id = Some(batch_id),
                                     !.idx = withdrawal_idx, !.attempt = 0, !.log = <<>>,
                                     !.result = None]
    /\ ev' = NoEvent
    /\ UNCHANGED bridgeframe

\* one iteration of the retry loop: try_bridge runs the command and the match
\* returns, or starts the sleep before the next attempt
TryBridge(output) ==
    /\ bridge.pc = "try"
    /\ LET r == try_bridge(output)
           invoked == Append(bridge.log, <<"sncast", bridge.batch_id[1], bridge.idx, output>>)
       IN bridge' =
            IF r[1] = "Ok"
            THEN [bridge EXCEPT !.pc = "returned", !.log = invoked, !.result = Some(r)]
            ELSE IF r[2] = "AlreadyBridged"
            THEN [bridge EXCEPT !.pc = "returned", !.log = invoked,
                                !.result = Some(<<"Ok", "already_bridged">>)]
            ELSE IF bridge.attempt < MAX_BRIDGE_RETRIES - 1
            THEN [bridge EXCEPT !.pc = "sleep",
                                !.log = Append(invoked, <<"sleep", Backoff(bridge.attempt)>>)]
            ELSE [bridge EXCEPT !.pc = "returned", !.log = invoked, !.result = Some(r)]
    /\ ev' = NoEvent
    /\ UNCHANGED bridgeframe

\* tokio::time::sleep(backoff) is over: the next iteration
SleepDone ==
    /\ bridge.pc = "sleep"
    /\ bridge' = [bridge EXCEPT !.pc = "try", !.attempt = bridge.attempt + 1]
    /\ ev' = NoEvent
    /\ UNCHANGED bridgeframe

\* the call as its caller sees it
Returned == [batch_id |-> bridge.batch_id[1], idx |-> bridge.idx, result |-> bridge.result[1]]

\* bridge_withdrawal returns to a caller that only reads the result
BridgeReturn ==
    /\ bridge.pc = "returned"
    /\ bridge' = [bridge EXCEPT !.pc = "idle", !.calls = Append(bridge.calls, Returned)]
    /\ ev' = NoEvent
    /\ UNCHANGED bridgeframe

\* step 5 of process_batch calls bridge_withdrawal(&outcome.batch_id, idx)
ProverBridgeCall ==
    /\ pc = "bridging"
    /\ BridgeCall(RelayOutcome(cur.batch_id, cur.proof_hash[1]).batch_id, cur.idx)

\* the call returns to step 5 of process_batch
ProverBridgeReturn ==
    /\ bridge.pc = "returned"
    /\ BridgeStep(bridge.result[1][1] = "Ok")
    /\ bridge' = [bridge EXCEPT !.pc = "idle", !.calls = Append(bridge.calls, Returned)]
    /\ UNCHANGED <<rate_limit_per_min, legacy_plaintext_allowed, relayer_private_key, now,
                   idempotency, rate_limits, reqs, nextReq, resp, enqueued, tvars,
                   shutdown, view, redis, trusted_proxies>>

\* ------------------------------------------------------------------ batch status
\* AppError::error_code
error_code(kind) ==
    CASE kind = "BadRequest" -> "BAD_REQUEST"
      [] kind = "Unauthorized" -> "UNAUTHORIZED"
      [] kind = "RateLimited" -> "RATE_LIMITED"
      [] kind = "BatchFull" -> "BATCH_FULL"
      [] kind = "ProverError" -> "PROVER_ERROR"
      [] kind = "RelayerError" -> "RELAYER_ERROR"
      [] kind = "BridgeError" -> "BRIDGE_ERROR"
      [] kind = "Internal" -> "INTERNAL_ERROR"

\* AppError::public_message
public_message(kind) ==
    CASE kind = "BadRequest" -> "invalid request"
      [] kind = "Unauthorized" -> "unauthorized"
      [] kind = "RateLimited" -> "rate limited"
      [] kind = "BatchFull" -> "service at capacity, try again later"
      [] kind = "ProverError" -> "processing failed"
      [] kind = "RelayerError" -> "submission failed"
      [] kind = "BridgeError" -> "bridge operation failed"
      [] kind = "Internal" -> "internal error"

AppErrorKinds == {"BadRequest", "Unauthorized", "RateLimited", "BatchFull", "ProverError",
                  "RelayerError", "BridgeError", "Internal"}

\* IntoResponse for AppError: e is the variant and its message; the message
\* goes to the log only
into_response(e) ==
    [status |-> status_code(e[1]),
     body |-> [error |-> public_message(e[1]), code |-> error_code(e[1])]]

\* Display for ProverError (e.to_string() in ProverService::run): the
\* variant's prefix followed by its message; the store keeps the pair
ErrorText(e) == <<e[1], ": ", e[2]>>

\* get_batch: the JSON of the record found
BatchJson(record) ==
    [status |-> 200,
     body |-> [id |-> record.id, status |-> record.status, tx_count |-> record.tx_count,
               proof_hash |-> record.proof_hash,
               batch_id_onchain |-> record.batch_id_onchain, tx_hash |-> record.tx_hash,
               created_at |-> record.created_at,
               error |-> IF record.error = None THEN None
                         ELSE Some(ErrorText(record.error[1]))]]

\* get_batch: the id texts of the path; 0 stands for a text longer than 64
\* characters or with a character outside [A-Za-z0-9-]
IdFormatOk(id) == id # 0

\* get_batch over the store bs
get_batch_response(bs, api_key, id) ==
    IF ~is_api_key_valid(api_key) THEN into_response(<<"Unauthorized", "">>)
    ELSE IF ~IdFormatOk(id) THEN into_response(<<"BadRequest", "invalid batch id format">>)
    ELSE IF id \notin DOMAIN bs THEN into_response(<<"BadRequest", "batch not found">>)
    ELSE BatchJson(bs[id])

NoView == [turn |-> 0, api_key |-> 0, id |-> 0, response |-> None]

\* the get_batch handler answers a request
GetBatch(api_key, id) ==
    /\ view' = [turn |-> 1 - view.turn, api_key |-> api_key, id |-> id,
                response |-> Some(get_batch_response(batches, api_key, id))]
    /\ ev' = NoEvent
    /\ UNCHANGED <<hostframe, qvars, shutdown, bridge>>

\* ------------------------------------------------------------------ shutdown
\* main serving: no signal received
Serving == [pc |-> "serving", pending |-> 0, flushed |-> None]

InitHost ==
    /\ shutdown = Serving
    /\ view = NoView
    /\ bridge = BridgeIdle
    /\ redis = <<>>
    /\ trusted_proxies = {}

\* the server accepts requests until shutdown_signal has returned
Accepting == shutdown.pc \notin {"returned", "exited"}
\* the tasks of the runtime run until main returns
Running == shutdown.pc # "exited"

\* shutdown_signal: the select! over ctrl_c and SIGTERM completes
Signal ==
    /\ shutdown.pc = "serving"
    /\ shutdown' = [shutdown EXCEPT !.pc = "signalled"]
    /\ ev' = NoEvent
    /\ UNCHANGED <<hostframe, qvars, view, bridge>>

\* shutdown_signal: state.queue.pending_count().await, under the pending lock
ShutdownCount ==
    /\ shutdown.pc = "signalled"
    /\ lockSend = <<>>
    /\ shutdown' = [shutdown EXCEPT !.pending = Len(pending),
                                    !.pc = IF Len(pending) > 0 THEN "flush" ELSE "returned"]
    /\ ev' = NoEvent
    /\ UNCHANGED <<hostframe, qvars, view, bridge>>

\* shutdown_signal: state.queue.force_flush().await up to the send; a refused
\* flush returns None at once
ShutdownFlush ==
    /\ shutdown.pc = "flush"
    /\ ForceFlushQueue
    /\ shutdown' = IF lockSend' # <<>>
                   THEN [shutdown EXCEPT !.pc = "sending",
                                         !.flushed = Some(lockSend'[1].batch.batch_id)]
                   ELSE [shutdown EXCEPT !.pc = "returned"]
    /\ UNCHANGED <<hostframe, view, bridge>>

\* shutdown_signal: force_flush has returned from its send, the future completes
ShutdownReturn ==
    /\ shutdown.pc = "sending"
    /\ lockSend = <<>>
    /\ shutdown' = [shutdown EXCEPT !.pc = "returned"]
    /\ ev' = NoEvent
    /\ UNCHANGED <<hostframe, qvars, view, bridge>>

\* axum::serve returns once no request is in progress, main returns and the
\* runtime is dropped with the tasks spawned on it: the prover task and the
\* timeout loop are detached (their JoinHandles are dropped at the spawn) and
\* take no further step
Exit ==
    /\ shutdown.pc = "returned"
    /\ lockSend = <<>>
    /\ shutdown' = [shutdown EXCEPT !.pc = "exited"]
    /\ ev' = NoEvent
    /\ UNCHANGED <<hostframe, qvars, view, bridge>>

\* ------------------------------------------------------------------ submissions explored
\* u32 inputs: 0, 1, 2^31 - 2, 2^31 - 1, 2^31, 2^32 - 1
U32Samples ==
    {U32(0, 0), U32(0, 1), U32(32767, 65534), U32(32767, 65535), U32(32768, 0),
     U32(65535, 65535)}

AllDenominations ==
    Range(BTC_DENOMINATIONS) \cup Range(SAGE_DENOMINATIONS) \cup Range(ETH_DENOMINATIONS)
    \cup Range(STRK_DENOMINATIONS) \cup Range(USDC_DENOMINATIONS)

\* u64 amounts: every listed denomination, 0, 1, MAX_NOTE_AMOUNT and its
\* successor, 2^64 - 1
AmountSamples ==
    AllDenominations \cup
    {U64(0, 0, 0), U64(0, 0, 1), MAX_NOTE_AMOUNT, U64(4, 611686018, 427387904),
     U64(18, 446744073, 709551615)}

\* asset ids: the five registered assets, 5 and 2^32 - 1
AssetSamples == {U32(0, a) : a \in 0..5} \cup {U32(65535, 65535)}

Four(v) == <<v, v, v, v>>
Eight(v) == <<v, v, v, v, v, v, v, v>>

GoodNote ==
    [owner_pubkey |-> Four(U32(0, 1)), asset_id |-> U32(0, 0), amount_lo |-> U32(0, 1),
     amount_hi |-> U32(0, 0), blinding |-> Four(U32(0, 1))]

GoodPath == [siblings |-> <<Eight(U32(0, 1))>>, index |-> 0]

GoodInput == [note |-> GoodNote, spending_key |-> Four(U32(0, 1)), merkle_path |-> GoodPath]

GoodDeposit ==
    [type |-> "deposit", amount |-> U64(0, 0, 50000), asset_id |-> U32(0, 0),
     recipient_pubkey |-> Four(U32(0, 1)), recipient_viewing_key |-> Four(U32(0, 1))]

GoodWithdraw ==
    [type |-> "withdraw", amount |-> U64(0, 0, 1), asset_id |-> U32(0, 0),
     note |-> GoodNote, spending_key |-> Four(U32(0, 1)), merkle_path |-> GoodPath,
     merkle_root |-> Eight(U32(0, 1)), withdrawal_binding |-> Eight(U32(0, 1)),
     binding_salt |-> None]

GoodTransfer ==
    [type |-> "transfer", amount |-> U64(0, 0, 1), asset_id |-> U32(0, 0),
     recipient_pubkey |-> Four(U32(0, 1)), recipient_viewing_key |-> Four(U32(0, 1)),
     sender_viewing_key |-> Four(U32(0, 1)), input_notes |-> <<GoodInput, GoodInput>>,
     merkle_root |-> Eight(U32(0, 1))]

\* the notes that differ from GoodNote in one field element
NoteVariants ==
    {[GoodNote EXCEPT !.owner_pubkey[i] = v] : i \in 1..4, v \in U32Samples}
    \cup {[GoodNote EXCEPT !.asset_id = v] : v \in U32Samples}
    \cup {[GoodNote EXCEPT !.amount_lo = v] : v \in U32Samples}
    \cup {[GoodNote EXCEPT !.amount_hi = v] : v \in U32Samples}
    \cup {[GoodNote EXCEPT !.blinding[i] = v] : i \in 1..4, v \in U32Samples}

PathVariants ==
    {[GoodPath EXCEPT !.siblings[1][i] = v] : i \in 1..8, v \in U32Samples}
    \cup {[GoodPath EXCEPT !.siblings = [j \in 1..n |-> Eight(U32(0, 1))]] :
            n \in {0, MAX_MERKLE_DEPTH, MAX_MERKLE_DEPTH + 1}}

InputVariants ==
    {[GoodInput EXCEPT !.note = n] : n \in NoteVariants}
    \cup {[GoodInput EXCEPT !.spending_key[i] = v] : i \in 1..4, v \in U32Samples}
    \cup {[GoodInput EXCEPT !.merkle_path = p] : p \in PathVariants}

\* the requests of each type that differ from the good one in the amount and
\* asset, or in one field element
DepositRequests ==
    {[GoodDeposit EXCEPT !.amount = a, !.asset_id = s] :
        a \in AmountSamples, s \in AssetSamples}
    \cup {[GoodDeposit EXCEPT !.recipient_pubkey[i] = v] : i \in 1..4, v \in U32Samples}
    \cup {[GoodDeposit EXCEPT !.recipient_viewing_key[i] = v] : i \in 1..4, v \in U32Samples}

WithdrawRequests ==
    {[GoodWithdraw EXCEPT !.amount = a, !.asset_id = s] :
        a \in AmountSamples, s \in {U32(0, 0), U32(0, 5)}}
    \cup {[GoodWithdraw EXCEPT !.note = n] : n \in NoteVariants}
    \cup {[GoodWithdraw EXCEPT !.spending_key[i] = v] : i \in 1..4, v \in U32Samples}
    \cup {[GoodWithdraw EXCEPT !.merkle_path = p] : p \in PathVariants}
    \cup {[GoodWithdraw EXCEPT !.merkle_root[i] = v] : i \in 1..8, v \in U32Samples}
    \cup {[GoodWithdraw EXCEPT !.withdrawal_binding[i] = v] : i \in 1..8, v \in U32Samples}
    \cup {[GoodWithdraw EXCEPT !.binding_salt = Some(Eight(U32(65535, 65535)))]}

TransferRequests ==
    {[GoodTransfer EXCEPT !.amount = a, !.asset_id = s] :
        a \in AmountSamples, s \in {U32(0, 0), U32(0, 5)}}
    \cup {[GoodTransfer EXCEPT !.recipient_pubkey[i] = v] : i \in 1..4, v \in U32Samples}
    \cup {[GoodTransfer EXCEPT !.recipient_viewing_key[i] = v] : i \in 1..4, v \in U32Samples}
    \cup {[GoodTransfer EXCEPT !.sender_viewing_key[i] = v] : i \in 1..4, v \in U32Samples}
    \cup {[GoodTransfer EXCEPT !.input_notes[k] = in] : k \in 1..2, in \in InputVariants}
    \cup {[GoodTransfer EXCEPT !.merkle_root[i] = v] : i \in 1..8, v \in U32Samples}

ValidationRequests == DepositRequests \cup WithdrawRequests \cup TransferRequests

\* a deposit of an amount that is no BTC denomination
OddDeposit == [GoodDeposit EXCEPT !.amount = U64(0, 0, 1)]

\* an envelope whose ciphertext was altered after sealing
Tampered ==
    [seal(GoodWithdraw, 1, 1) EXCEPT !.ciphertext.tail = <<"tampered">>]

IngressBodies == {GoodDeposit, OddDeposit, seal(GoodWithdraw, 1, 1), Tampered}

\* the requests: one without a valid API key, the others of API key 1, all
\* from one address
Submissions ==
    {[api_key |-> 0, ip |-> 1, body |-> GoodDeposit]}
    \cup {[api_key |-> 1, ip |-> 1, body |-> b] : b \in IngressBodies}

\* the windows left by 3 * limit - 1 earlier requests of API keys 2, 3 and 4
\* from address 1 at time 0
PriorTraffic(limit) ==
    (<<"ip", 1>> :> [count |-> 3 * limit - 1, window_start |-> 0])
    @@ (<<"key", 2>> :> [count |-> limit, window_start |-> 0])
    @@ (<<"key", 3>> :> [count |-> limit, window_start |-> 0])
    @@ (<<"key", 4>> :> [count |-> limit - 1, window_start |-> 0])

\* ------------------------------------------------------------------ spec
InitState ==
    /\ pending = <<>>
    /\ channel = <<>>
    /\ rxOpen = TRUE
    /\ lockSend = <<>>
    /\ loopSend = <<>>
    /\ loopAlive = TRUE
    /\ nextTx = 1
    /\ nextBatch = 1
    /\ sent = <<>>
    /\ ev = NoEvent
    /\ pc = "idle"
    /\ cur = NoBatch
    /\ batches = <<>>
    /\ notes = <<>>
    /\ recvd = <<>>
    /\ effects = {}

\* no request has been submitted
InitStore ==
    /\ rate_limit_per_min = 1
    /\ legacy_plaintext_allowed = TRUE
    /\ relayer_private_key = <<>>
    /\ now = 0
    /\ idempotency = <<>>
    /\ rate_limits = <<>>
    /\ reqs = <<>>
    /\ nextReq = 1
    /\ resp = NoResponse
    /\ enqueued = {}
    /\ InitTree
    /\ InitHost

\* the whole pipeline behind BatchQueue::with_min_batch(2, 1, 2, 1, 1):
\* batches of one (timeout, force) and of two (size) transactions reach the
\* prover, and up to two of them wait on the channel
Init ==
    /\ max_size = 2
    /\ min_batch_size = 1
    /\ timeout = 1
    /\ max_wait = 1
    /\ channel_buffer = 2
    /\ observe = FALSE
    /\ InitState
    /\ InitStore

QueueNext ==
    \/ ForceFlush
    \/ SendLocked
    \/ TimeoutCheck
    \/ LoopSend
    \/ Tick

ProverNext ==
    \/ ProverRecv
    \/ \E join_error \in BOOLEAN, answers \in [CheckedInputs -> ChainAnswers] :
          ValidateDone(join_error, answers)
    \/ \E outcome \in ProveOutcomes : ProveDone(outcome)
    \/ \E outcome \in SubmitOutcomes : SubmitDone(outcome)
    \/ \E ok \in BOOLEAN : BridgeDone(ok)

Next ==
    \/ nextTx <= MaxProverTxs /\ \E in \in TxInputs : Push(in[1], in[2])
    \/ QueueNext
    \/ ProverNext

Spec == Init /\ [][Next]_vars

\* the batch queue under every configuration in range, with its consumer
\* reduced to rx.recv(); a channel of capacity 1 makes a second batch wait
\* for the consumer
InitQueue ==
    /\ max_size \in 1..MaxMaxSize
    /\ min_batch_size \in 1..MaxMinBatch
    /\ timeout \in 1..MaxTimeout
    /\ max_wait \in 1..MaxWait
    /\ channel_buffer = 1
    /\ observe = TRUE
    /\ InitState
    /\ InitStore

\* the queue never reads the transactions it holds: deposits stand for all
NextQueue ==
    \/ nextTx <= MaxTxs /\ Push("Deposit", 1)
    \/ QueueNext
    \/ RxRecv
    \/ ReceiverDropped

SpecQueue == InitQueue /\ [][NextQueue]_vars

\* the pipeline with a prover whose offloaded steps each return or fail: a
\* prover step that can be taken (recv on a non-empty channel, the return of
\* a worker, of the submission, of a bridge call) is eventually taken
NextLive ==
    \/ nextTx <= MaxLiveTxs /\ \E in \in TxInputs : Push(in[1], in[2])
    \/ QueueNext
    \/ ProverNext

SpecLive == Init /\ [][NextLive]_vars /\ WF_vars(ProverNext)

\* the submit pipeline in front of the queue: up to MaxRequests requests, at
\* most MaxInFlight of them in progress at once, a consumer that takes the
\* batches off the channel, the wall clock and the eviction task
InitIngress ==
    /\ max_size = 2
    /\ min_batch_size = 1
    /\ timeout = 1
    /\ max_wait = 1
    /\ channel_buffer = 1
    /\ observe = FALSE
    /\ InitState
    /\ rate_limit_per_min = 2
    /\ legacy_plaintext_allowed \in BOOLEAN
    /\ relayer_private_key = Some("sk")
    /\ now = 0
    /\ idempotency = <<>>
    /\ rate_limits = PriorTraffic(rate_limit_per_min)
    /\ reqs = <<>>
    /\ nextReq = 1
    /\ resp = NoResponse
    /\ enqueued = {}
    /\ InitTree
    /\ InitHost

SubmitNext ==
    \/ \E r \in DOMAIN reqs : KeyRate(r)
    \/ \E r \in DOMAIN reqs : IpRate(r)
    \/ \E r \in DOMAIN reqs : Admission(r)
    \/ \E r \in DOMAIN reqs, d \in EnvelopeMs : Envelope(r, d)
    \/ \E r \in DOMAIN reqs, over_capacity \in BOOLEAN : Idempotency(r, over_capacity)
    \/ \E r \in DOMAIN reqs : ValidateAndPush(r)
    \/ \E r \in DOMAIN reqs : PushReturn(r)

NextIngress ==
    \/ /\ nextReq <= MaxRequests
       /\ Cardinality(DOMAIN reqs) < MaxInFlight
       /\ \E sub \in Submissions : Authenticate(sub)
    \/ SubmitNext
    \/ SendLocked
    \/ RxRecv
    \/ EvictExpired
    \/ \E t \in {RATE_WINDOW_SECS, IDEMPOTENCY_TTL_SECS} : Advance(t)

SpecIngress == InitIngress /\ [][NextIngress]_vars

\* validate_and_convert applied to every request of ValidationRequests: one
\* authenticated plaintext submission goes through the pipeline
InitValidate ==
    /\ max_size = 1
    /\ min_batch_size = 1
    /\ timeout = 1
    /\ max_wait = 1
    /\ channel_buffer = 1
    /\ observe = FALSE
    /\ InitState
    /\ rate_limit_per_min = 1
    /\ legacy_plaintext_allowed = TRUE
    /\ relayer_private_key = None
    /\ now = 0
    /\ idempotency = <<>>
    /\ rate_limits = <<>>
    /\ \E req \in ValidationRequests :
          reqs = (1 :> Handler([api_key |-> 1, ip |-> 1, body |-> req]))
    /\ nextReq = 2
    /\ resp = NoResponse
    /\ enqueued = {}
    /\ InitTree
    /\ InitHost

NextValidate ==
    \/ SubmitNext
    \/ SendLocked

SpecValidate == InitValidate /\ [][NextValidate]_vars

\* the idempotency namespace under direct calls: check_and_set for every key
\* and result, the clock at every point of ClockPoints, the eviction task
InitTokens ==
    /\ max_size = 1
    /\ min_batch_size = 1
    /\ timeout = 1
    /\ max_wait = 1
    /\ channel_buffer = 1
    /\ observe = FALSE
    /\ InitState
    /\ InitStore

NextTokens ==
    \/ \E key \in TokenKeys, result \in TokenResults, over_capacity \in BOOLEAN :
          CheckAndSet(key, result, over_capacity)
    \/ EvictExpired
    \/ \E t \in ClockPoints : Advance(t)

SpecTokens == InitTokens /\ [][NextTokens]_vars

\* the rate limiter under the submit pipeline: requests of API keys 1 and 4
\* from one address whose envelope does not decrypt, every limit up to
\* MaxRateLimit, no window or the windows of earlier traffic, the clock at
\* every point of ClockPoints, the eviction task
RateSubmissions == {[api_key |-> k, ip |-> 1, body |-> Tampered] : k \in {1, 4}}

InitRate ==
    /\ max_size = 1
    /\ min_batch_size = 1
    /\ timeout = 1
    /\ max_wait = 1
    /\ channel_buffer = 1
    /\ observe = FALSE
    /\ InitState
    /\ rate_limit_per_min \in 1..MaxRateLimit
    /\ legacy_plaintext_allowed = TRUE
    /\ relayer_private_key = Some("sk")
    /\ now = 0
    /\ idempotency = <<>>
    /\ rate_limits \in {<<>>, PriorTraffic(rate_limit_per_min)}
    /\ reqs = <<>>
    /\ nextReq = 1
    /\ resp = NoResponse
    /\ enqueued = {}
    /\ InitTree
    /\ InitHost

NextRate ==
    \/ /\ nextReq <= MaxRateRequests
       /\ Cardinality(DOMAIN reqs) < MaxInFlight
       /\ \E sub \in RateSubmissions : Authenticate(sub)
    \/ \E r \in DOMAIN reqs : KeyRate(r)
    \/ \E r \in DOMAIN reqs : IpRate(r)
    \/ \E r \in DOMAIN reqs : Admission(r)
    \/ \E r \in DOMAIN reqs, d \in EnvelopeMs : Envelope(r, d)
    \/ EvictExpired
    \/ \E t \in ClockPoints : Advance(t)

SpecRate == InitRate /\ [][NextRate]_vars

\* the submit pipeline in front of a queue that is one or two transactions
\* short of MAX_PENDING_TXS: max_size lies above the limit, so no push drains
\* the queue, and the transactions queued so far are withdrawals
Backlog(n) == [i \in 1..n |-> QueuedTx(PendingTx(i, "Withdraw", <<>>))]

InitAdmission ==
    /\ max_size = MAX_PENDING_TXS + 2
    /\ min_batch_size = 1
    /\ timeout = 1
    /\ max_wait = 1
    /\ channel_buffer = 1
    /\ observe = FALSE
    /\ \E n \in {MAX_PENDING_TXS - 2, MAX_PENDING_TXS - 1} :
          /\ pending = Backlog(n)
          /\ nextTx = n + 1
    /\ channel = <<>>
    /\ rxOpen = TRUE
    /\ lockSend = <<>>
    /\ loopSend = <<>>
    /\ loopAlive = TRUE
    /\ nextBatch = 1
    /\ sent = <<>>
    /\ ev = NoEvent
    /\ pc = "idle"
    /\ cur = NoBatch
    /\ batches = <<>>
    /\ notes = <<>>
    /\ recvd = <<>>
    /\ effects = {}
    /\ rate_limit_per_min = 2
    /\ legacy_plaintext_allowed \in BOOLEAN
    /\ relayer_private_key = Some("sk")
    /\ now = 0
    /\ idempotency = <<>>
    /\ rate_limits \in {<<>>, PriorTraffic(rate_limit_per_min)}
    /\ reqs = <<>>
    /\ nextReq = 1
    /\ resp = NoResponse
    /\ enqueued = {}
    /\ InitTree
    /\ InitHost

NextAdmission ==
    \/ /\ nextReq <= MaxRequests
       /\ Cardinality(DOMAIN reqs) < MaxInFlight
       /\ \E sub \in Submissions : Authenticate(sub)
    \/ \E r \in DOMAIN reqs : KeyRate(r)
    \/ \E r \in DOMAIN reqs : IpRate(r)
    \/ \E r \in DOMAIN reqs : Admission(r)
    \/ \E r \in DOMAIN reqs, d \in EnvelopeMs : Envelope(r, d)
    \/ \E r \in DOMAIN reqs, over_capacity \in BOOLEAN : Idempotency(r, over_capacity)
    \/ \E r \in DOMAIN reqs : ValidateAndPush(r)

SpecAdmission == InitAdmission /\ [][NextAdmission]_vars

\* the note index: deposits go through the prover one batch at a time and
\* leave their records, the pool contract emits events, the syncer mirrors
\* them and backfills, and clients ask for Merkle paths by note key, by
\* digest and by malformed texts; the service may be absent (tree_sync None)
TreeDigests == {ForeignDigest} \cup {<<id, 1>> : id \in 1..MaxTreeTxs}
Commitments ==
    {KeyHex(k) : k \in 1..MaxTreeKeys} \cup {DigestHex(d) : d \in TreeDigests}
    \cup MalformedTexts

InitNotes ==
    /\ max_size = 1
    /\ min_batch_size = 1
    /\ timeout = 1
    /\ max_wait = 1
    /\ channel_buffer = 1
    /\ observe = FALSE
    /\ InitState
    /\ rate_limit_per_min = 1
    /\ legacy_plaintext_allowed = TRUE
    /\ relayer_private_key = None
    /\ now = 0
    /\ idempotency = <<>>
    /\ rate_limits = <<>>
    /\ reqs = <<>>
    /\ nextReq = 1
    /\ resp = NoResponse
    /\ enqueued = {}
    /\ tree_sync \in {None, Some(<<>>)}
    /\ chain = <<>>
    /\ syncer = SyncerIdle
    /\ lookup = None
    /\ reply = NoAnswer
    /\ InitHost

NextNotes ==
    \/ nextTx <= MaxTreeTxs /\ \E k \in 1..MaxTreeKeys : Push("Deposit", k)
    \/ SendLocked
    \/ ProverRecv
    \/ ValidateDone(FALSE, [i \in CheckedInputs |-> "ok"])
    \/ ProveDone("ok")
    \/ SubmitDone("ok")
    \/ \E d \in TreeDigests : NoteInserted(d)
    \/ SyncTake
    \/ \E n \in 0..MaxLeaves, join_error \in BOOLEAN : SyncPut(n, join_error)
    \/ \E note \in syncer.pending : Backfill(note)
    \/ \E api_key \in {0, 1}, commitment \in Commitments :
          GetMerklePath(api_key, commitment)
    \/ GetProof

SpecNotes == InitNotes /\ [][NextNotes]_vars

\* the pipeline of Init under a shutdown signal: requests arrive until
\* shutdown_signal has returned, the spawned tasks run until main returns
InitShutdown ==
    /\ max_size = 2
    /\ min_batch_size \in 1..2
    /\ timeout = 1
    /\ max_wait = 1
    /\ channel_buffer = 2
    /\ observe = FALSE
    /\ InitState
    /\ InitStore

NextShutdown ==
    \/ Accepting /\ nextTx <= MaxLiveTxs /\ \E in \in TxInputs : Push(in[1], in[2])
    \/ Accepting /\ ForceFlush
    \/ Running /\ SendLocked
    \/ Running /\ TimeoutCheck
    \/ Running /\ LoopSend
    \/ Running /\ Tick
    \/ Running /\ ProverNext
    \/ Signal
    \/ ShutdownCount
    \/ ShutdownFlush
    \/ ShutdownReturn
    \/ Exit

SpecShutdown == InitShutdown /\ [][NextShutdown]_vars

\* the pipeline of Init with a client reading batch statuses; the proving and
\* submission failures carry the text of the backend's error
Details == {"Invalid transaction nonce: expected 17", "rpc: connection refused"}
BatchIdTexts == 0..MaxLiveTxs

NextDisclosure ==
    \/ nextTx <= MaxLiveTxs /\ \E in \in TxInputs : Push(in[1], in[2])
    \/ QueueNext
    \/ ProverRecv
    \/ \E answers \in [CheckedInputs -> {"ok", "spent"}] : ValidateDone(FALSE, answers)
    \/ \E outcome \in {"ok"} \cup Details : ProveDone(outcome)
    \/ \E outcome \in {"ok"} \cup Details : SubmitDone(outcome)
    \/ \E ok \in BOOLEAN : BridgeDone(ok)
    \/ \E api_key \in {0, 1}, id \in BatchIdTexts : GetBatch(api_key, id)

SpecDisclosure == Init /\ [][NextDisclosure]_vars

\* the pipeline of Init with the bridge calls of step 5 carried out by
\* BridgeService: each command succeeds, fails, or reports the withdrawal as
\* already bridged
PipelineOutputs ==
    {CommandOutput(TRUE, TRUE, {}, Some("0xabc")),
     CommandOutput(TRUE, FALSE, {"nonce"}, None),
     CommandOutput(TRUE, FALSE, {"already bridged"}, None)}

NextBridging ==
    \/ nextTx <= MaxProverTxs /\ \E kind \in {"Withdraw", "Deposit"} : Push(kind, 1)
    \/ QueueNext
    \/ ProverRecv
    \/ ValidateDone(FALSE, [id \in CheckedInputs |-> "ok"])
    \/ ProveDone("ok")
    \/ \E outcome \in {"ok", "relay error"} : SubmitDone(outcome)
    \/ ProverBridgeCall
    \/ \E output \in PipelineOutputs : TryBridge(output)
    \/ SleepDone
    \/ ProverBridgeReturn

SpecBridging == Init /\ [][NextBridging]_vars

\* BridgeService alone: callers pass well-formed and malformed batch ids, and
\* the command ends in each of the ways try_bridge tells apart
BridgeIds == {<<"onchain", 1>>, <<"malformed", 1>>}
Stderrs == {{}, {"already bridged"}, {"bridge_key exists"}, {"nonce"},
            {"nonce", "already bridged"}, {"timeout"}, {"insufficient"}}
CommandOutputs ==
    {CommandOutput(FALSE, FALSE, {}, None)}
      \cup {CommandOutput(TRUE, FALSE, e, None) : e \in Stderrs}
      \cup {CommandOutput(TRUE, TRUE, e, h) :
              e \in {{}, {"already bridged"}}, h \in {None, Some("0xabc")}}

NextBridge ==
    \/ /\ Len(bridge.calls) < MaxBridgeCalls
       /\ \E batch_id \in BridgeIds, idx \in 0..1 : BridgeCall(batch_id, idx)
    \/ \E output \in CommandOutputs : TryBridge(output)
    \/ SleepDone
    \/ BridgeReturn

SpecBridge == Init /\ [][NextBridge]_vars

\* the prover on one batch of up to MaxIndexTxs transactions of any kinds, in
\* the order the shuffle left them, with deposits of equal and of different
\* note fields: the state after the pushes and the size-triggered flush of
\* BatchQueue::with_min_batch(n, 1, 2, 1, 1)
IndexInputs == {<<"Deposit", k>> : k \in 1..MaxTreeKeys} \cup {<<"Withdraw", 0>>, <<"Transfer", 0>>}
IndexBatches ==
    UNION {{[i \in 1..n |-> PendingTx(i, in[i][1], in[i][2])] : in \in [1..n -> IndexInputs]} :
             n \in 1..MaxIndexTxs}

InitIndex ==
    /\ \E txs \in IndexBatches :
          /\ channel = <<ReadyBatch(1, txs)>>
          /\ nextTx = Len(txs) + 1
          /\ max_size = Len(txs)
    /\ min_batch_size = 1
    /\ timeout = 1
    /\ max_wait = 1
    /\ channel_buffer = 2
    /\ observe = FALSE
    /\ pending = <<>>
    /\ rxOpen = TRUE
    /\ lockSend = <<>>
    /\ loopSend = <<>>
    /\ loopAlive = TRUE
    /\ nextBatch = 2
    /\ sent = <<1>>
    /\ ev = NoEvent
    /\ pc = "idle"
    /\ cur = NoBatch
    /\ batches = <<>>
    /\ notes = <<>>
    /\ recvd = <<>>
    /\ effects = {}
    /\ InitStore

NextIndex ==
    \/ ProverRecv
    \/ \E join_error \in BOOLEAN, answers \in [CheckedInputs -> {"ok", "spent"}] :
          ValidateDone(join_error, answers)
    \/ \E outcome \in ProveOutcomes : ProveDone(outcome)
    \/ \E outcome \in SubmitOutcomes : SubmitDone(outcome)
    \/ \E ok \in BOOLEAN : BridgeDone(ok)

SpecIndex == InitIndex /\ [][NextIndex]_vars

\* the note index under the sync loop of TreeSyncService::run: the store may
\* hold a record written before commitment_digest existed (serde default:
\* unset); interval.tick() fires forever, so the loop keeps taking its steps
LegacyKey == MaxTreeKeys + 1
LegacyNote ==
    [commitment |-> LegacyKey, merkle_path |-> [siblings |-> <<>>, index |-> 0],
     merkle_root |-> 0, batch_id |-> 0, commitment_digest |-> None,
     note_index_in_batch |-> 0]

InitBackfill ==
    /\ max_size = 1
    /\ min_batch_size = 1
    /\ timeout = 1
    /\ max_wait = 1
    /\ channel_buffer = 1
    /\ observe = FALSE
    /\ pending = <<>>
    /\ channel = <<>>
    /\ rxOpen = TRUE
    /\ lockSend = <<>>
    /\ loopSend = <<>>
    /\ loopAlive = TRUE
    /\ nextTx = 1
    /\ nextBatch = 1
    /\ sent = <<>>
    /\ ev = NoEvent
    /\ pc = "idle"
    /\ cur = NoBatch
    /\ batches = <<>>
    /\ notes \in {<<>>, [k \in {LegacyKey} |-> LegacyNote]}
    /\ recvd = <<>>
    /\ effects = {}
    /\ InitStore

SyncReturns == \E n \in 0..MaxLeaves, join_error \in BOOLEAN : SyncPut(n, join_error)
BackfillTurn == \E note \in syncer.pending : Backfill(note)

NextBackfill ==
    \/ nextTx <= MaxTreeTxs /\ \E k \in 1..MaxTreeKeys : Push("Deposit", k)
    \/ SendLocked
    \/ ProverRecv
    \/ ValidateDone(FALSE, [i \in CheckedInputs |-> "ok"])
    \/ ProveDone("ok")
    \/ SubmitDone("ok")
    \/ \E d \in TreeDigests : NoteInserted(d)
    \/ SyncTake
    \/ SyncReturns
    \/ BackfillTurn
    \/ \E k \in 1..LegacyKey : GetMerklePath(1, KeyHex(k))

SpecBackfill ==
    /\ InitBackfill
    /\ [][NextBackfill]_vars
    /\ WF_vars(SyncTake)
    /\ WF_vars(SyncReturns)
    /\ WF_vars(BackfillTurn)

\* the store under the prover, direct calls of check_and_set and check_rate,
\* the eviction task and a clock that passes the retention ages
EvictionClock ==
    {IDEMPOTENCY_TTL_SECS - 1, IDEMPOTENCY_TTL_SECS,
     BATCH_RETENTION_SECS - 1, BATCH_RETENTION_SECS, BATCH_RETENTION_SECS + IDEMPOTENCY_TTL_SECS}

NextEviction ==
    \/ nextTx <= MaxTreeTxs /\ Push("Deposit", 1)
    \/ SendLocked
    \/ ProverRecv
    \/ ValidateDone(FALSE, [i \in CheckedInputs |-> "ok"])
    \/ \E outcome \in {"ok", "prove error"} : ProveDone(outcome)
    \/ SubmitDone("ok")
    \/ CheckAndSet(1, "ok", FALSE)
    \/ CheckRate(1, 1, RATE_WINDOW_SECS)
    \/ EvictExpired
    \/ \E t \in EvictionClock : Advance(t)

SpecEviction == InitTokens /\ [][NextEviction]_vars

\* the two rate limit stores under the same timed calls: key 1 with the
\* window of submit, key 2 with a window one second shorter, limits 1 and 2,
\* the clock at the points of RateClock
RateClock == {1, RATE_WINDOW_SECS - 1, RATE_WINDOW_SECS, RATE_WINDOW_SECS + 1,
              2 * RATE_WINDOW_SECS - 1, 2 * RATE_WINDOW_SECS}

NextRedis ==
    \/ \E key \in {1, 2}, limit \in {1, 2} :
          CheckRateBoth(key, limit, RATE_WINDOW_SECS + 1 - key)
    \/ \E t \in RateClock : Advance(t)

SpecRedis == InitTokens /\ [][NextRedis]_vars

\* the rate limiter behind a reverse proxy: peer 2 is the proxy when one is
\* configured; requests of API keys 1 and 4 come from peer 1 or through peer
\* 2, without X-Forwarded-For or with one naming addresses 1, 3 and 4
ProxyPeer == 2
XffHeaders ==
    {None, Some(XffHeader(FALSE, <<XffEntry(0, 3)>>)),
     Some(XffHeader(TRUE, <<XffEntry(0, 3)>>)),
     Some(XffHeader(TRUE, <<XffEntry(1, 1), XffEntry(0, 3)>>)),
     Some(XffHeader(TRUE, <<XffEntry(1, 0), XffEntry(0, 4)>>))}
ProxySubmissions ==
    {[api_key |-> k, ip |-> p, xff |-> x, body |-> Tampered] :
        k \in {1, 4}, p \in {1, ProxyPeer}, x \in XffHeaders}

InitProxy ==
    /\ max_size = 1
    /\ min_batch_size = 1
    /\ timeout = 1
    /\ max_wait = 1
    /\ channel_buffer = 1
    /\ observe = FALSE
    /\ InitState
    /\ rate_limit_per_min = 2
    /\ legacy_plaintext_allowed = TRUE
    /\ relayer_private_key = Some("sk")
    /\ now = 0
    /\ idempotency = <<>>
    /\ rate_limits \in {<<>>, PriorTraffic(rate_limit_per_min)}
    /\ reqs = <<>>
    /\ nextReq = 1
    /\ resp = NoResponse
    /\ enqueued = {}
    /\ InitTree
    /\ shutdown = Serving
    /\ view = NoView
    /\ bridge = BridgeIdle
    /\ redis = <<>>
    /\ trusted_proxies \in {{}, {ProxyPeer}}

NextProxy ==
    \/ /\ nextReq <= MaxProxyRequests
       /\ Cardinality(DOMAIN reqs) < MaxInFlight
       /\ \E sub \in ProxySubmissions : Authenticate(sub)
    \/ \E r \in DOMAIN reqs : KeyRate(r)
    \/ \E r \in DOMAIN reqs : IpRate(r)
    \/ \E r \in DOMAIN reqs : Admission(r)
    \/ \E r \in DOMAIN reqs, d \in EnvelopeMs : Envelope(r, d)

SpecProxy == InitProxy /\ [][NextProxy]_vars


\* submissions that differ in content: two deposits of the same amount and
\* asset to different recipients, in plaintext and sealed under the same
\* ephemeral key and nonce, and the first one sealed under another ephemeral
\* key and under another nonce
OtherDeposit == [GoodDeposit EXCEPT !.recipient_pubkey = Four(U32(0, 2))]

DedupBodies ==
    {GoodDeposit, OtherDeposit, seal(GoodDeposit, 1, 1), seal(OtherDeposit, 1, 1),
     seal(GoodDeposit, 2, 1), seal(GoodDeposit, 1, 2)}

InitDedup ==
    /\ max_size = 2
    /\ min_batch_size = 1
    /\ timeout = 1
    /\ max_wait = 1
    /\ channel_buffer = 1
    /\ observe = FALSE
    /\ InitState
    /\ rate_limit_per_min = MaxRequests
    /\ legacy_plaintext_allowed = TRUE
    /\ relayer_private_key = Some("sk")
    /\ now = 0
    /\ idempotency = <<>>
    /\ rate_limits = <<>>
    /\ reqs = <<>>
    /\ nextReq = 1
    /\ resp = NoResponse
    /\ enqueued = {}
    /\ InitTree
    /\ InitHost

NextDedup ==
    \/ /\ nextReq <= MaxRequests
       /\ Cardinality(DOMAIN reqs) < MaxInFlight
       /\ \E b \in DedupBodies : Authenticate([api_key |-> 1, ip |-> 1, body |-> b])
    \/ SubmitNext
    \/ SendLocked
    \/ RxRecv

SpecDedup == InitDedup /\ [][NextDedup]_vars
\* ------------------------------------------------------------------ claims
RecvdIds == {recvd[i].batch_id : i \in DOMAIN recvd}
ErrorKind(r) == IF r.error = None THEN "none" ELSE r.error[1][1]
StepsOf(b, names) == {e \in effects : e[2] = b /\ e[1] \in names}
NonTerminal == {b \in DOMAIN batches : batches[b].status \notin Terminal}

StatusEdges ==
    {<<"Pending", "Proving">>, <<"Proving", "Submitting">>, <<"Submitting", "Finalized">>,
     <<"Pending", "Failed">>, <<"Proving", "Failed">>, <<"Submitting", "Failed">>}

\* C1: a batch record starts Pending and every change of its status is one
\* step along Pending -> Proving -> Submitting -> Finalized or a move from a
\* non-terminal status to Failed; a Finalized or Failed record keeps its
\* status.
C1_StatusMonotone ==
    [][ /\ \A b \in DOMAIN batches \cap DOMAIN batches' :
             \/ batches'[b].status = batches[b].status
             \/ <<batches[b].status, batches'[b].status>> \in StatusEdges
        /\ \A b \in DOMAIN batches' \ DOMAIN batches :
             batches'[b].status = "Pending" ]_vars

C1_Witness ==
    /\ \E b \in DOMAIN batches : batches[b].status = "Finalized"
    /\ \E b \in DOMAIN batches :
          batches[b].status = "Failed" /\ ErrorKind(batches[b]) = "relayer"

\* C2: every batch the prover dequeued eventually has a record in Finalized
\* or Failed, whichever way its validation, proving and submission steps end
\* (a join error of a blocking worker included).
C2_EventuallyTerminal ==
    \A b \in 1..MaxLiveTxs :
        (cur.batch_id = b) ~> (b \in DOMAIN batches /\ batches[b].status \in Terminal)

C2_Witness ==
    \E b \in DOMAIN batches :
        /\ batches[b].status = "Failed"
        /\ batches[b].error = Some(<<"proving", "task join error">>)
        /\ cur.batch_id # b

ValidationTexts ==
    {"task join error", "root check: rpc error", "nullifier check: rpc error",
     "unknown Merkle root in withdrawal", "unknown Merkle root in transfer",
     "nullifier already spent", "nullifier already spent in transfer"}

\* the record the step that ends the processing of a batch leaves behind,
\* by the stage the batch was in
EndsAs(stage, r) ==
    CASE stage = "validating" ->
            /\ r.status = "Failed"
            /\ ErrorKind(r) = "validation" /\ r.error[1][2] \in ValidationTexts
      [] stage = "proving" ->
            /\ r.status = "Failed"
            /\ ErrorKind(r) = "proving" /\ r.error[1][2] \in ProveOutcomes \ {"ok"}
      [] stage = "submitting" ->
            \/ /\ r.status = "Failed"
               /\ ErrorKind(r) = "relayer" /\ r.error[1][2] \in SubmitOutcomes \ {"ok"}
            \/ r.status = "Finalized" /\ r.error = None
      [] OTHER -> r.status = "Finalized" /\ r.error = None

\* C3: a batch whose validation, proving, hashing or submission fails ends
\* Failed with the error text in its error field, and an error field is only
\* set on a Failed record; no later step of that batch runs: no proving after
\* a validation failure, no submission after a validation or proving failure,
\* no bridge call and no note record after a submission failure.
C3_FailureStops ==
    /\ [](\A b \in DOMAIN batches :
            LET r == batches[b]
                k == ErrorKind(r)
            IN /\ (r.status = "Failed") <=> (r.error # None)
               /\ r.status = "Failed" => cur.batch_id # b
               /\ k = "validation" =>
                     StepsOf(b, {"prove", "submit", "bridge", "note"}) = {}
               /\ k = "proving" => StepsOf(b, {"submit", "bridge", "note"}) = {}
               /\ k = "relayer" => StepsOf(b, {"bridge", "note"}) = {}
               /\ r.status = "Failed" => k \in {"validation", "proving", "relayer"})
    /\ [][cur.batch_id # 0 /\ cur'.batch_id # cur.batch_id =>
            /\ cur.batch_id \in DOMAIN batches'
            /\ EndsAs(pc, batches'[cur.batch_id])
            /\ effects' \ effects \subseteq {e \in effects' : e[1] = "note"}
            /\ batches'[cur.batch_id].status = "Failed" =>
                  effects' = effects /\ notes' = notes]_vars

C3_Witness ==
    /\ \E b \in DOMAIN batches :
          /\ batches[b].error = Some(<<"validation", "unknown Merkle root in withdrawal">>)
          /\ StepsOf(b, {"prove", "submit", "bridge", "note"}) = {}
    /\ \E b \in DOMAIN batches :
          /\ batches[b].error = Some(<<"relayer", "relay error">>)
          /\ <<"submit", b, 0>> \in effects

\* C4: at most one batch record is in a non-terminal status, and it is the
\* batch in process; the prover takes the next batch only when every record
\* is Finalized or Failed; the batches are received in the order they were
\* placed on the channel, the others waiting on the channel.
C4_OneAtATime ==
    /\ [](/\ Cardinality(NonTerminal) <= 1
          /\ NonTerminal \subseteq {cur.batch_id}
          /\ pc = "idle" => NonTerminal = {}
          /\ [i \in 1..Len(recvd) |-> recvd[i].batch_id]
               \o [i \in 1..Len(channel) |-> channel[i].batch_id] = sent)
    /\ [][recvd' # recvd =>
            /\ NonTerminal = {}
            /\ channel # <<>>
            /\ Last(recvd').batch_id = Head(channel).batch_id
            /\ channel' = Tail(channel)]_vars

C4_Witness ==
    /\ Len(channel) = 2
    /\ pc = "proving"
    /\ Len(recvd) = 1
    /\ sent = <<recvd[1].batch_id, channel[1].batch_id, channel[2].batch_id>>

\* C5: a batch id handed out by a flush has no record until the prover
\* dequeues its batch; the record is created at the dequeue, Pending, with
\* tx_count equal to the number of transactions of the batch; tx_count never
\* changes afterwards.
C5_RecordAtDequeue ==
    /\ [](/\ \A b \in 1..(nextBatch - 1) : b \notin RecvdIds => get_batch(b) = None
          /\ \A i \in DOMAIN recvd :
                LET r == get_batch(recvd[i].batch_id)
                IN r # None => r[1].tx_count = Cardinality(recvd[i].ids))
    /\ [][ /\ \A b \in DOMAIN batches' \ DOMAIN batches :
                /\ channel # <<>> /\ Head(channel).batch_id = b
                /\ batches'[b].status = "Pending"
                /\ batches'[b].tx_count = Len(Head(channel).transactions)
                /\ batches'[b].tx_count >= 1
           /\ \A b \in DOMAIN batches \cap DOMAIN batches' :
                batches'[b].tx_count = batches[b].tx_count ]_vars

C5_Witness ==
    /\ \E i \in DOMAIN channel : get_batch(channel[i].batch_id) = None
    /\ \E b \in DOMAIN batches :
          batches[b].tx_count = 2 /\ batches[b].status = "Finalized"

\* the queue while the timeout loop runs and the receiver stays open: seconds
\* pass, the interval of the loop keeps ticking, a send completes once the
\* channel has room, and the consumer keeps receiving
NextQueueOpen ==
    \/ nextTx <= MaxLiveTxs /\ Push("Deposit", 1)
    \/ QueueNext
    \/ RxRecv

SpecQueueLive ==
    /\ InitQueue
    /\ [][NextQueueOpen]_vars
    /\ WF_vars(Tick)
    /\ WF_vars(TimeoutCheck)
    /\ WF_vars(LoopSend)
    /\ WF_vars(SendLocked)
    /\ WF_vars(RxRecv)

\* the ReadyBatches built and not yet received, oldest stage last
InFlight == [i \in 1..Len(lockSend) |-> lockSend[i].batch] \o loopSend \o channel
Ids(txs) == [i \in 1..Len(txs) |-> txs[i].id]
IsPermutation(a, b) ==
    /\ Len(a) = Len(b)
    /\ \E p \in Permutations(1..Len(a)) : \A i \in 1..Len(a) : a[i] = b[p[i]]
Oldest == pending[1].elapsed
LoopEmits == loopSend = <<>> /\ loopSend' # <<>>

\* C6: every ReadyBatch holds at least one transaction; the timeout loop
\* builds a batch only when the oldest queued transaction has waited at least
\* timeout and the queue holds at least min_batch_size, or the oldest has
\* waited at least max_wait; with min_batch_size 3, a check over one queued
\* transaction aged at least timeout and less than max_wait emits nothing.
C6_TimeoutFlushRule ==
    /\ [](/\ \A i \in DOMAIN InFlight : Len(InFlight[i].transactions) >= 1
          /\ \A i \in DOMAIN recvd : recvd[i].ids # {})
    /\ [][ /\ LoopEmits =>
                /\ pending # <<>>
                /\ \/ Oldest >= timeout /\ Len(pending) >= min_batch_size
                   \/ Oldest >= max_wait
           /\ ( /\ ev'.op = "timeout_check"
                /\ min_batch_size = 3 /\ Len(pending) = 1
                /\ Oldest >= timeout /\ Oldest < max_wait ) =>
                /\ ev'.batch_id = 0
                /\ UNCHANGED <<pending, loopSend, channel, nextBatch>> ]_vars

C6_Witness ==
    /\ ev = Event("timeout_check", 0, 0)
    /\ min_batch_size = 3
    /\ Len(pending) = 1
    /\ Oldest >= timeout /\ Oldest < max_wait
    /\ InFlight = <<>> /\ recvd = <<>>

\* C7: a push that brings the queue to max_size drains the whole queue into
\* exactly one ReadyBatch with a fresh id, returns (Some(id), 0) and leaves
\* the queue empty; any other push appends, emits nothing and returns
\* (None, queue length); the queue is always shorter than max_size.
C7_PushFlush ==
    /\ [](Len(pending) < max_size)
    /\ [][ /\ nextTx' # nextTx =>
                IF Len(pending) + 1 = max_size
                THEN /\ pending' = <<>>
                     /\ Len(lockSend') = 1 /\ lockSend'[1].op = "push"
                     /\ lockSend'[1].batch.batch_id = nextBatch
                     /\ nextBatch' = nextBatch + 1
                     /\ IsPermutation(Ids(lockSend'[1].batch.transactions),
                                      Append(Ids(Drain(pending)), nextTx))
                     /\ UNCHANGED <<loopSend, channel>>
                ELSE /\ Len(pending') = Len(pending) + 1
                     /\ SubSeq(pending', 1, Len(pending)) = pending
                     /\ Last(pending').tx.id = nextTx
                     /\ ev' = Event("push", 0, Len(pending'))
                     /\ UNCHANGED <<lockSend, loopSend, channel, nextBatch>>
           /\ (lockSend # <<>> /\ lockSend' = <<>> /\ lockSend[1].op = "push") =>
                /\ ev' = Event("push", lockSend[1].batch.batch_id, 0)
                /\ pending' = <<>>
                /\ rxOpen => channel' = Append(channel, lockSend[1].batch)
                /\ UNCHANGED <<loopSend, nextBatch>> ]_vars

C7_Witness ==
    /\ max_size = 2
    /\ ev.op = "push" /\ ev.batch_id # 0 /\ ev.queue_len = 0
    /\ pending = <<>>
    /\ channel # <<>>
    /\ Last(channel).batch_id = ev.batch_id
    /\ Len(Last(channel).transactions) = 2

ForceStep == lockSend = <<>> /\ ev'.op \in {"force_flush", "force_flush_wait"}

\* C8: force_flush builds a batch only from a non-empty queue of at least
\* min_batch_size transactions, and then drains the whole queue into one
\* ReadyBatch whose id it returns once the batch is on the channel; otherwise
\* it returns None, emits nothing and leaves the queue unchanged.
C8_ForceFlushFrame ==
    [][ /\ ForceStep =>
             IF pending # <<>> /\ Len(pending) >= min_batch_size
             THEN /\ pending' = <<>>
                  /\ Len(lockSend') = 1 /\ lockSend'[1].op = "force_flush"
                  /\ lockSend'[1].batch.batch_id = nextBatch
                  /\ nextBatch' = nextBatch + 1
                  /\ IsPermutation(lockSend'[1].batch.transactions, Drain(pending))
                  /\ UNCHANGED <<loopSend, channel>>
             ELSE /\ ev' = Event("force_flush", 0, 0)
                  /\ UNCHANGED <<pending, lockSend, loopSend, channel, nextBatch, sent>>
        /\ (lockSend # <<>> /\ lockSend' = <<>> /\ lockSend[1].op = "force_flush") =>
             /\ ev'.op = "force_flush"
             /\ ev'.batch_id # 0 =>
                   /\ ev'.batch_id = lockSend[1].batch.batch_id
                   /\ channel' = Append(channel, lockSend[1].batch)
             /\ rxOpen => ev'.batch_id # 0
             /\ UNCHANGED <<pending, loopSend, nextBatch>> ]_vars

C8_Witness ==
    /\ ev = Event("force_flush", 0, 0)
    /\ min_batch_size = 3
    /\ Len(pending) = 2
    /\ InFlight = <<>> /\ recvd = <<>>

Emitted(t) ==
    \/ \E i \in DOMAIN channel : t \in Range(Ids(channel[i].transactions))
    \/ \E i \in DOMAIN recvd : t \in recvd[i].ids

\* C9: while the timeout loop runs and the receiver is open, every pushed
\* transaction is eventually placed on the channel inside a ReadyBatch; a
\* timeout check that finds the oldest transaction aged at least max_wait
\* drains the whole queue into one batch, whatever min_batch_size is.
C9_EventuallyEmitted ==
    /\ \A t \in 1..MaxLiveTxs : (nextTx > t) ~> Emitted(t)
    /\ [][(ev'.op = "timeout_check" /\ loopSend = <<>> /\ lockSend = <<>>
             /\ pending # <<>> /\ Oldest >= max_wait) =>
            /\ pending' = <<>>
            /\ Len(loopSend') = 1
            /\ IsPermutation(loopSend'[1].transactions, Drain(pending))]_vars

C9_Witness ==
    /\ min_batch_size = 3
    /\ timeout > max_wait
    /\ Len(channel) = 1
    /\ Len(channel[1].transactions) = 1
    /\ ev.op = "loop_send" /\ ev.batch_id = channel[1].batch_id
    /\ nextTx = 2

Occurrences(t) ==
    Cardinality({i \in DOMAIN pending : pending[i].tx.id = t})
    + Cardinality({<<i, j>> \in (DOMAIN InFlight) \X (1..MaxTxs) :
                     /\ j <= Len(InFlight[i].transactions)
                     /\ InFlight[i].transactions[j].id = t})
    + Cardinality({i \in DOMAIN recvd : t \in recvd[i].ids})

\* the batch a step built, if it built one
Built == IF lockSend' # lockSend THEN lockSend'[1].batch ELSE loopSend'[1]

\* C10: while the channel is open, every pushed transaction is in the queue
\* or in exactly one emitted batch, never in both and never twice; every
\* batch built by push, force_flush or the timeout loop is a permutation of
\* the whole queue at the moment of the flush decision, and empties it.
C10_NoLossNoDuplicate ==
    /\ [](rxOpen => \A t \in 1..(nextTx - 1) : Occurrences(t) = 1)
    /\ [][nextBatch' # nextBatch =>
            /\ pending' = <<>>
            /\ (lockSend' # lockSend) # (loopSend' # loopSend)
            /\ Built.batch_id = nextBatch
            /\ IF nextTx' # nextTx
               THEN /\ IsPermutation(Ids(Built.transactions),
                                     Append(Ids(Drain(pending)), nextTx))
                    /\ \A tx \in Range(Drain(pending)) : tx \in Range(Built.transactions)
               ELSE IsPermutation(Built.transactions, Drain(pending))]_vars

C10_Witness ==
    /\ rxOpen
    /\ pending # <<>>
    /\ loopSend # <<>>
    /\ channel # <<>>
    /\ \E i \in DOMAIN InFlight :
          /\ Len(InFlight[i].transactions) >= 2
          /\ InFlight[i].transactions[1].id > InFlight[i].transactions[2].id

\* the handler r takes the step that leaves the position at
Leaves(r, at) ==
    /\ r \in DOMAIN reqs
    /\ reqs[r].pc = at
    /\ r \notin DOMAIN reqs' \/ reqs'[r].pc # at

QueueUntouched ==
    UNCHANGED <<pending, channel, lockSend, loopSend, nextTx, nextBatch, sent>>

Duplicate(r) ==
    [NoResponse EXCEPT !.id = r, !.code = 200, !.status = "duplicate",
                       !.cached_result = Some(idempotency[reqs[r].idem_key[1]].result),
                       !.idempotency_key = reqs[r].idem_key,
                       !.env_ms = reqs[r].env_ms]

\* C11: of two submissions with the same idempotency key whose idempotency
\* checks are less than the token lifetime apart, in sequence or in parallel,
\* at most one enqueues a transaction; the one that meets the live token is
\* answered 200 "duplicate" with its idempotency_key and the cached value, and
\* that step leaves the queue as it was.
C11_OneEnqueuePerToken ==
    [][ /\ \A r \in DOMAIN reqs :
             LET key == reqs[r].idem_key[1]
             IN /\ ( /\ Leaves(r, "idempotency")
                     /\ key \in DOMAIN idempotency
                     /\ now - idempotency[key].created < IDEMPOTENCY_TTL_SECS )
                   => resp' = Duplicate(r) /\ QueueUntouched
                /\ Leaves(r, "validate") /\ nextTx' # nextTx
                   => \A e \in enqueued :
                         e.key = key =>
                            \/ reqs[r].checked_at[1] - e.at >= IDEMPOTENCY_TTL_SECS
                            \/ e.at - reqs[r].checked_at[1] >= IDEMPOTENCY_TTL_SECS
        /\ resp' # resp /\ resp'.status = "duplicate" =>
             /\ resp'.id \in DOMAIN reqs
             /\ resp' = Duplicate(resp'.id)
             /\ QueueUntouched ]_vars

\* a duplicate is answered while the first submission of the key is still
\* between its idempotency check and its push
C11_Witness ==
    /\ resp.status = "duplicate"
    /\ resp.code = 200
    /\ resp.cached_result = Some("pending")
    /\ \E r \in DOMAIN reqs :
          reqs[r].pc = "validate" /\ reqs[r].idem_key = resp.idempotency_key

\* C12: check_and_set(key, result) returns None and stores (result, now)
\* exactly when the map holds no token for the key or holds one that is at
\* least IDEMPOTENCY_TTL_SECS old; otherwise it returns the stored result and
\* leaves the token as it was, the result of the later call being dropped.  An
\* expired token is never a hit, whether the eviction has removed it or not.
C12_CheckAndSet ==
    [][ ev'.op = "check_and_set" =>
          LET key == ev'.key
              live == /\ key \in DOMAIN idempotency
                      /\ now - idempotency[key].created < IDEMPOTENCY_TTL_SECS
          IN /\ key \in DOMAIN idempotency'
             /\ IF live
                THEN /\ ev'.outcome = Some(idempotency[key].result)
                     /\ idempotency'[key] = idempotency[key]
                ELSE /\ ev'.outcome = None
                     /\ idempotency'[key] = [result |-> ev'.result, created |-> now] ]_vars

\* a call that found an expired token still in the map and replaced it
C12_Witness ==
    /\ ev.op = "check_and_set"
    /\ ev.occupied
    /\ ev.outcome = None
    /\ ev.result = "batch-2"
    /\ idempotency[ev.key] = [result |-> "batch-2", created |-> now]
    /\ now >= IDEMPOTENCY_TTL_SECS

\* what a check_rate call of request r on the window of key, with the limit
\* given, must do: a window that is absent or window_secs old restarts at
\* (1, now) and the call is allowed; a running window below the limit is
\* incremented and the call is allowed; a running window at the limit is left
\* as it is and the call is refused with RateLimited
RateStep(r, key, limit, pc_next) ==
    LET running == /\ key \in DOMAIN rate_limits
                   /\ now - rate_limits[key].window_start < RATE_WINDOW_SECS
    IN /\ key \in DOMAIN rate_limits'
       /\ rate_limits'[key].count <= limit
       /\ \A k \in DOMAIN rate_limits \ {key} :
             k \in DOMAIN rate_limits' /\ rate_limits'[k] = rate_limits[k]
       /\ IF ~running
          THEN /\ rate_limits'[key] = [count |-> 1, window_start |-> now]
               /\ reqs'[r].pc = pc_next
          ELSE IF rate_limits[key].count < limit
          THEN /\ rate_limits'[key] = [rate_limits[key] EXCEPT !.count = @ + 1]
               /\ reqs'[r].pc = pc_next
          ELSE /\ rate_limits'[key] = rate_limits[key]
               /\ r \notin DOMAIN reqs'
               /\ resp' = ErrorResponse(r, "RateLimited", None)

\* C13: counting from the window start, check_rate allows the first L calls
\* of a key and refuses every further call before window_secs has elapsed,
\* without counting it; the first call at or after window_start + window_secs
\* restarts the window at now and is allowed.  The per-key step of submit
\* uses L = rate_limit_per_min, so with rate_limit_per_min = 3 the fourth
\* submission of an API key within 60 s is refused with RateLimited.
C13_RateWindow ==
    [][ \A r \in DOMAIN reqs :
          /\ Leaves(r, "key_rate") =>
                RateStep(r, <<"key", reqs[r].api_key>>, rate_limit_per_min, "ip_rate")
          /\ Leaves(r, "ip_rate") =>
                RateStep(r, <<"ip", reqs[r].ip>>, rate_limit_per_min * 3, "admission") ]_vars

\* limit 3, no earlier traffic: three submissions of API key 1 went through
\* both rate steps and the fourth was refused while the window was running
C13_Witness ==
    /\ rate_limit_per_min = 3
    /\ resp = ErrorResponse(4, "RateLimited", None)
    /\ DOMAIN rate_limits = {<<"key", 1>>, <<"ip", 1>>}
    /\ rate_limits[<<"key", 1>>].count = 3
    /\ rate_limits[<<"ip", 1>>].count = 3
    /\ now - rate_limits[<<"key", 1>>].window_start < RATE_WINDOW_SECS
    /\ now > rate_limits[<<"key", 1>>].window_start

\* the steps of submit after require_auth, in the order of the code
PipelineOrder ==
    <<"key_rate", "ip_rate", "admission", "envelope", "idempotency", "validate",
      "sending">>
StepIndex(p) == CHOOSE i \in 1..Len(PipelineOrder) : PipelineOrder[i] = p

NothingEnqueued == QueueUntouched /\ UNCHANGED enqueued

\* request r is answered with an error in this step
Rejected(r) ==
    /\ r \in DOMAIN reqs
    /\ r \notin DOMAIN reqs'
    /\ resp'.id = r
    /\ resp'.code \notin {200, 202}

\* C14: submit runs authenticate, per-key rate limit, per-IP rate limit,
\* queue admission, envelope resolution, idempotency, validation, push in
\* this order, and a request rejected at one step causes no effect of a later
\* step: Unauthorized changes no rate window, token or queue; RateLimited,
\* BatchFull and an envelope rejection set no token and enqueue nothing; a
\* validation rejection enqueues nothing.  Windows change only in the rate
\* steps, tokens only in the idempotency step, the queue only in the push.
C14_FailFast ==
    [][ /\ nextReq' # nextReq =>
             /\ UNCHANGED <<rate_limits, idempotency>>
             /\ NothingEnqueued
             /\ IF resp'.status = "Unauthorized"
                THEN UNCHANGED reqs
                ELSE reqs' = reqs @@ (nextReq :> reqs'[nextReq])
                     /\ reqs'[nextReq].pc = PipelineOrder[1]
        /\ \A r \in DOMAIN reqs :
             /\ (r \in DOMAIN reqs' /\ reqs'[r].pc # reqs[r].pc) =>
                   StepIndex(reqs'[r].pc) = StepIndex(reqs[r].pc) + 1
             /\ Rejected(r) =>
                   /\ reqs[r].pc \in {"key_rate", "ip_rate"} =>
                         resp'.status = "RateLimited"
                   /\ reqs[r].pc = "admission" => resp'.status = "BatchFull"
                   /\ reqs[r].pc \in {"envelope", "validate"} =>
                         resp'.status \in {"BadRequest", "Internal"}
                   /\ reqs[r].pc \notin {"idempotency", "sending"}
                   /\ StepIndex(reqs[r].pc) < StepIndex("idempotency") =>
                         UNCHANGED idempotency
                   /\ NothingEnqueued
        /\ rate_limits' # rate_limits =>
             \/ \E r \in DOMAIN reqs : Leaves(r, "key_rate") \/ Leaves(r, "ip_rate")
             \/ rate_limits' = retain_windows(rate_limits, now)
        /\ idempotency' # idempotency =>
             \/ \E r \in DOMAIN reqs : Leaves(r, "idempotency")
             \/ idempotency' = retain_tokens(idempotency, now)
        /\ (nextTx' # nextTx \/ enqueued' # enqueued) =>
             \E r \in DOMAIN reqs : Leaves(r, "validate") /\ ~Rejected(r) ]_vars

\* a deposit of an amount off the whitelist was refused by validation after
\* it was counted in both rate windows and had set its token, and the queue
\* is as long as it was at the start
C14_Witness ==
    /\ resp.status = "BadRequest"
    /\ resp.code = 400
    /\ resp.env_ms # None
    /\ idempotency_key(OddDeposit) \in DOMAIN idempotency
    /\ rate_limits[<<"key", 1>>].count = 1
    /\ rate_limits[<<"ip", 1>>].count = 1
    /\ enqueued = {}
    /\ nextTx = Len(pending) + 1
    /\ legacy_plaintext_allowed

\* C15: a submission that reaches queue admission is answered BatchFull
\* (HTTP 503) exactly when the queue holds MAX_PENDING_TXS transactions or
\* more at that moment, and goes on to envelope resolution otherwise.
C15_Admission ==
    [][ \A r \in DOMAIN reqs :
          Leaves(r, "admission") =>
             IF Len(pending) >= MAX_PENDING_TXS
             THEN /\ r \notin DOMAIN reqs'
                  /\ resp' = ErrorResponse(r, "BatchFull", None)
                  /\ resp'.code = 503
             ELSE /\ r \in DOMAIN reqs'
                  /\ reqs'[r].pc = "envelope"
                  /\ resp'.status # "BatchFull" ]_vars

\* the queue was filled to the limit by an admitted submission and the next
\* one was refused
C15_Witness ==
    /\ resp.status = "BatchFull"
    /\ resp.code = 503
    /\ Len(pending) = MAX_PENDING_TXS
    /\ nextTx = MAX_PENDING_TXS + 1
    /\ enqueued # {}

\* the field-element inputs of a request: the u32 values validate_and_convert
\* hands to validate_m31
NoteElements(n) ==
    Range(n.owner_pubkey) \cup {n.asset_id, n.amount_lo, n.amount_hi} \cup Range(n.blinding)
PathElements(p) == UNION {Range(p.siblings[i]) : i \in 1..Len(p.siblings)}
InputElements(in) ==
    NoteElements(in.note) \cup Range(in.spending_key) \cup PathElements(in.merkle_path)
FieldElements(req) ==
    CASE req.type = "deposit" ->
           Range(req.recipient_pubkey) \cup Range(req.recipient_viewing_key)
      [] req.type = "withdraw" ->
           NoteElements(req.note) \cup Range(req.spending_key)
           \cup PathElements(req.merkle_path) \cup Range(req.merkle_root)
           \cup Range(req.withdrawal_binding)
      [] req.type = "transfer" ->
           Range(req.recipient_pubkey) \cup Range(req.recipient_viewing_key)
           \cup Range(req.sender_viewing_key) \cup InputElements(req.input_notes[1])
           \cup InputElements(req.input_notes[2]) \cup Range(req.merkle_root)

\* 2^31 - 2, the largest element of the field
M31_MAX == U32(32767, 65534)
InField(v) == ~u32_gt(v, M31_MAX)

\* C16: validate_and_convert accepts a submission only if every field-element
\* input lies in [0, 2^31 - 2]; a submission with a field-element input
\* outside that range, 2^31 - 1 included, is refused with BadRequest and
\* nothing is enqueued.
C16_FieldRange ==
    [][ \A r \in DOMAIN reqs :
          Leaves(r, "validate") =>
             LET req == reqs[r].req[1]
             IN /\ ~Rejected(r) => \A v \in FieldElements(req) : InField(v)
                /\ (\E v \in FieldElements(req) : ~InField(v)) =>
                      /\ Rejected(r)
                      /\ resp'.status = "BadRequest"
                      /\ NothingEnqueued ]_vars

\* what the code does for the values above the range: a submission with a
\* field element greater than M31_MODULUS = 2^31 - 1 is refused
FieldRangeOfCode ==
    [][ \A r \in DOMAIN reqs :
          Leaves(r, "validate") =>
             LET req == reqs[r].req[1]
             IN (\E v \in FieldElements(req) : u32_gt(v, M31_MODULUS)) =>
                   /\ Rejected(r)
                   /\ resp'.status = "BadRequest"
                   /\ NothingEnqueued ]_vars

\* a submission with a field element equal to 2^31 - 1 passed validation and
\* was pushed
C16_Witness ==
    \E r \in DOMAIN reqs :
       /\ reqs[r].pc = "sending"
       /\ M31_MODULUS \in FieldElements(reqs[r].req[1])
       /\ enqueued # {}
       /\ nextTx = 2

\* the whitelist of a registered asset, as the tables of the source list it
Whitelist(asset_id) ==
    CASE asset_id = U32(0, 0) -> Range(BTC_DENOMINATIONS)
      [] asset_id = U32(0, 1) -> Range(SAGE_DENOMINATIONS)
      [] asset_id = U32(0, 2) -> Range(ETH_DENOMINATIONS)
      [] asset_id = U32(0, 3) -> Range(STRK_DENOMINATIONS)
      [] asset_id = U32(0, 4) -> Range(USDC_DENOMINATIONS)
KnownAssets == {U32(0, a) : a \in 0..4}

AmountInRange(amount) == amount # U64(0, 0, 0) /\ ~u64_gt(amount, MAX_NOTE_AMOUNT)

\* the Merkle paths of a request
Paths(req) ==
    CASE req.type = "deposit" -> {}
      [] req.type = "withdraw" -> {req.merkle_path}
      [] req.type = "transfer" -> {req.input_notes[k].merkle_path : k \in 1..2}

\* nothing but the amount can make validate_and_convert refuse the request
AmountDecides(req) ==
    /\ \A v \in FieldElements(req) : ~u32_gt(v, M31_MODULUS)
    /\ \A p \in Paths(req) : Len(p.siblings) <= MAX_MERKLE_DEPTH

\* C17: a deposit for a known asset id (0..4) passes validation only if its
\* amount is one of the six denominations listed for the asset, and any other
\* amount is refused with BadRequest; deposits for other asset ids, and all
\* withdrawals and transfers, are restricted only by 0 < amount <=
\* MAX_NOTE_AMOUNT.
C17_Denominations ==
    [][ \A r \in DOMAIN reqs :
          Leaves(r, "validate") =>
             LET req == reqs[r].req[1]
             IN IF req.type = "deposit" /\ req.asset_id \in KnownAssets
                THEN /\ Cardinality(Whitelist(req.asset_id)) = 6
                     /\ ~Rejected(r) => req.amount \in Whitelist(req.asset_id)
                     /\ req.amount \notin Whitelist(req.asset_id) =>
                           /\ Rejected(r)
                           /\ resp'.status = "BadRequest"
                           /\ NothingEnqueued
                ELSE AmountDecides(req) =>
                        (Rejected(r) <=> ~AmountInRange(req.amount)) ]_vars

\* a deposit of amount 1, which no whitelist holds, for the unregistered
\* asset 5 passed validation and was pushed
C17_Witness ==
    \E r \in DOMAIN reqs :
       /\ reqs[r].pc = "sending"
       /\ reqs[r].req[1].type = "deposit"
       /\ reqs[r].req[1].asset_id = U32(0, 5)
       /\ reqs[r].req[1].amount = U64(0, 0, 1)
       /\ enqueued # {}

\* C18: every submission that reached envelope resolution, accepted or
\* refused, is answered no earlier than MIN_PROCESSING_MS after envelope
\* resolution started.
C18_MinimumTime ==
    resp.env_ms # None => resp.env_ms[1] >= MIN_PROCESSING_MS

\* what the code does: the pad lies behind the envelope match, so only the
\* responses of the steps after it carry the minimum time; the early returns
\* of the match (no key, failed decryption, plaintext disabled) do not wait
PadOfCode ==
    (resp.env_ms # None /\ resp.status \in {"queued", "batch_triggered", "duplicate"})
        => resp.env_ms[1] >= MIN_PROCESSING_MS

\* a plaintext submission was refused, with plaintext disabled, in the
\* millisecond envelope resolution started
C18_Witness ==
    /\ ~legacy_plaintext_allowed
    /\ resp.status = "BadRequest"
    /\ resp.env_ms = Some(0)

\* the Merkle fields of record n are the proof the tree gave, at some length
\* the chain has reached, for the record's own digest
ProofOfOwnDigest(n) ==
    /\ n.commitment_digest # None
    /\ verify(n.merkle_path.siblings, n.commitment_digest[1], n.merkle_path.index,
              n.merkle_root)
    /\ \E m \in 1..Len(chain) :
          ProofResult(SubSeq(chain, 1, m), n.commitment_digest[1])
             = Some([siblings |-> n.merkle_path.siblings, index |-> n.merkle_path.index,
                     root |-> n.merkle_root])

\* C19: every note record of the store has the all-zero sentinel root, or
\* its (siblings, index, root) is the proof the local tree produced for the
\* record's own commitment_digest, so that verify(siblings, leaf =
\* commitment_digest, index, root) holds; whoever wrote the record (the
\* prover, the backfill, the fill of get_merkle_path).
C19_StoredProofs ==
    \A k \in DOMAIN notes : notes[k].merkle_root = 0 \/ ProofOfOwnDigest(notes[k])

\* a record was backfilled with the proof of a leaf that is not the first of
\* the tree, while another record is still pending
C19_Witness ==
    \E k, j \in DOMAIN notes :
       /\ notes[k].merkle_root # 0
       /\ notes[k].merkle_path.index > 0
       /\ notes[j].merkle_root = 0

\* the record under key k is as it was
Kept(k) == k \in DOMAIN notes' /\ notes'[k] = notes[k]

\* what get_merkle_path must answer to the request for commitment c, given
\* the record it read and the tree get_proof sees: the stored proof; else the
\* proof of the tree, written to the record read; else pending_sync or
\* NotFound
LookupAnswer(c, record, leaves) ==
    LET digest == c.of[2]
        found == leaves # None /\ c.len = 64 /\ digest \in Range(leaves[1])
    IN IF record # None /\ record[1].merkle_root # 0
       THEN /\ reply'.status = "ok"
            /\ reply'.merkle_path = Some(record[1].merkle_path)
            /\ reply'.merkle_root = Some(record[1].merkle_root)
            /\ notes' = notes
       ELSE IF found
       THEN /\ reply'.status = "ok"
            /\ reply'.merkle_root = Some(tree_root(leaves[1]))
            /\ verify(reply'.merkle_path[1].siblings, digest,
                      reply'.merkle_path[1].index, reply'.merkle_root[1])
            /\ IF record = None THEN notes' = notes
               ELSE /\ DOMAIN notes' = DOMAIN notes
                    /\ \A k \in DOMAIN notes :
                          IF KeyHex(k) = c
                          THEN notes'[k] =
                                 [record[1] EXCEPT !.merkle_path = reply'.merkle_path[1],
                                                   !.merkle_root = reply'.merkle_root[1]]
                          ELSE Kept(k)
       ELSE /\ reply'.status = IF record # None THEN "pending_sync" ELSE "NotFound"
            /\ reply'.merkle_path = None
            /\ reply'.merkle_root = None
            /\ notes' = notes

TreeProofAnswered ==
    reply.status = "ok" /\ reply.asked[1].len = 64 /\ reply.batch_id = None
PendingSyncAnswered == reply.status = "pending_sync" /\ tree_sync # None /\ chain # <<>>
NotFoundAnswered == reply.status = "NotFound" /\ reply.asked[1].len = 64 /\ tree_sync # None

\* the batches handed to the channel or held by a sender
Handed == Range(sent) \cup {lockSend[i].batch.batch_id : i \in DOMAIN lockSend}
                     \cup {loopSend[i].batch_id : i \in DOMAIN loopSend}
Settled(b) == b \in DOMAIN batches /\ batches[b].status \in Terminal

\* C21: the process exits only after every batch in flight or on the channel,
\* the batch flushed at shutdown included, has reached Finalized or Failed
C21_ExitAfterBatches ==
    shutdown.pc = "exited" => \A b \in Handed : Settled(b)

\* what the code gives: shutdown_signal counts the pending transactions once
\* and calls force_flush at most once, exactly when the count was positive;
\* the exit waits for the senders among the handlers only
ShutdownOfCode ==
    /\ [](shutdown.pc \in {"flush", "sending"} => shutdown.pending > 0)
    /\ [](shutdown.flushed # None => shutdown.pending >= min_batch_size)
    /\ [](shutdown.pc = "exited" => lockSend = <<>>)
    /\ [][shutdown.flushed # None => shutdown'.flushed = shutdown.flushed]_vars

\* the process has exited while the batch flushed at shutdown has no terminal
\* record
C21_Witness ==
    /\ shutdown.pc = "exited"
    /\ shutdown.flushed # None
    /\ ~Settled(shutdown.flushed[1])

\* the store of the run that differs only in the detail text of its failures
Twin(bs, d) ==
    [b \in DOMAIN bs |->
        IF bs[b].error # None /\ bs[b].error[1][2] \in Details
        THEN [bs[b] EXCEPT !.error = Some(<<bs[b].error[1][1], d>>)]
        ELSE bs[b]]
Answered22 == view'.turn # view.turn
WithoutError(response) ==
    IF response.status = 200
    THEN [response EXCEPT !.body = [@ EXCEPT !.error = None]]
    ELSE response

\* C22: no internal error detail reaches a client: the run that differs only
\* in the detail text of a failure gets the same error bodies and the same
\* get_batch response
C22_DetailHidden ==
    /\ [](\A k \in AppErrorKinds : \A d1, d2 \in Details :
             into_response(<<k, d1>>) = into_response(<<k, d2>>))
    /\ [][Answered22 =>
            \A d \in Details :
               get_batch_response(Twin(batches, d), view'.api_key, view'.id)
                 = view'.response[1]]_vars

\* what the code gives: error bodies are fixed per kind, and the two runs get
\* the same get_batch response apart from its error field
DisclosureOfCode ==
    /\ [](\A k \in AppErrorKinds : \A d1, d2 \in Details :
             into_response(<<k, d1>>) = into_response(<<k, d2>>))
    /\ [][Answered22 =>
            \A d \in Details :
               WithoutError(get_batch_response(Twin(batches, d), view'.api_key, view'.id))
                 = WithoutError(view'.response[1])]_vars

\* a client has read the status of a batch that failed with a backend error
C22_Witness ==
    /\ view.response # None
    /\ view.response[1].status = 200
    /\ view.response[1].body.status = "Failed"
    /\ view.response[1].body.error[1][3] \in Details

\* the steps of the batch b started in this step
Started(b) == {e[1] : e \in StepsOf(b, {"prove", "submit", "bridge", "note"})' \ effects}
Withdrawals(txs) == {i \in DOMAIN txs : txs[i].kind = "Withdraw"}
\* the record status that goes with each position of process_batch
StatusAt(p) ==
    CASE p = "validating" -> "Pending"
      [] p = "proving" -> "Proving"
      [] OTHER -> "Submitting"
\* the steps a batch at position p has behind it
StepsAt(p) ==
    CASE p = "validating" -> {}
      [] p = "proving" -> {"prove"}
      [] p = "submitting" -> {"prove", "submit"}
      [] OTHER -> {"prove", "submit", "bridge"}
StepNames(b) == {e[1] : e \in StepsOf(b, {"prove", "submit", "bridge", "note"})}
PositionOrder == <<"idle", "validating", "proving", "submitting", "bridging">>
PositionIndex(p) == CHOOSE i \in 1..Len(PositionOrder) : PositionOrder[i] = p

\* C23: the prover takes the steps of a batch in the fixed order record
\* creation, validation, Proving, proof generation, Submitting with the proof
\* hash, submission, bridging, Finalized, note indexing: the submission starts
\* only with a proof, a bridge call only after the submission succeeded,
\* Finalized only after a bridge call for every withdrawal, notes only for a
\* Finalized record; a Finalized record carries proof_hash, batch_id_onchain
\* and tx_hash.
C23_StepOrder ==
    /\ [](/\ pc \in {"validating", "proving", "submitting", "bridging"} =>
               /\ cur.batch_id \in DOMAIN batches
               /\ batches[cur.batch_id].status = StatusAt(pc)
               /\ StepNames(cur.batch_id) = StepsAt(pc)
               /\ pc \in {"submitting", "bridging"} =>
                     /\ batches[cur.batch_id].proof_hash = Some(ProofHash(cur.batch_id))
                     /\ cur.proof_hash = batches[cur.batch_id].proof_hash
          /\ \A b \in DOMAIN batches :
               /\ batches[b].status = "Finalized" =>
                     /\ batches[b].proof_hash # None
                     /\ batches[b].batch_id_onchain # None
                     /\ batches[b].tx_hash # None
                     /\ {"prove", "submit"} \subseteq StepNames(b)
               /\ "note" \in StepNames(b) => batches[b].status = "Finalized"
               /\ "bridge" \in StepNames(b) => "submit" \in StepNames(b)
               /\ "submit" \in StepNames(b) => "prove" \in StepNames(b))
    /\ [][ /\ pc' # pc /\ pc' # "idle" => PositionIndex(pc') = PositionIndex(pc) + 1
                                          \/ (pc = "submitting" /\ pc' = "bridging")
           /\ pc # pc' /\ pc' = "validating" =>
                 /\ pc = "idle"
                 /\ cur'.batch_id \notin DOMAIN batches
                 /\ batches'[cur'.batch_id].status = "Pending"
           /\ \A b \in DOMAIN batches' :
                /\ "submit" \in Started(b) =>
                      /\ pc = "proving" /\ cur.batch_id = b
                      /\ batches'[b].status = "Submitting"
                      /\ batches'[b].proof_hash # None
                /\ "bridge" \in Started(b) =>
                      /\ pc \in {"submitting", "bridging"} /\ cur.batch_id = b
                      /\ batches'[b].status = "Submitting"
                /\ (b \in DOMAIN batches /\ batches[b].status # "Finalized"
                      /\ batches'[b].status = "Finalized") =>
                      /\ cur.batch_id = b
                      /\ pc \in {"submitting", "bridging"}
                      /\ \A i \in 0..(Cardinality(Withdrawals(cur.transactions)) - 1) :
                            <<"bridge", b, i>> \in effects
                      /\ "note" \notin StepNames(b)
                /\ "note" \in Started(b) =>
                      /\ batches'[b].status = "Finalized"
                      /\ cur.batch_id = b ]_vars

\* a batch with two withdrawals and one with a deposit have gone through all
\* the steps
C23_Witness ==
    /\ \E b \in DOMAIN batches :
          /\ batches[b].status = "Finalized"
          /\ {<<"bridge", b, 0>>, <<"bridge", b, 1>>} \subseteq effects
    /\ \E b \in DOMAIN batches :
          /\ batches[b].status = "Finalized"
          /\ <<"note", b, 0>> \in effects

\* the on-chain id of the batch b, and the bridge calls made with it
OnChainId(b) == RelayOutcome(b, ProofHash(b)).batch_id
CallsOf(cs, b) == SelectSeq(cs, LAMBDA c : c.batch_id = OnChainId(b))
InOrder(cs, n) == Len(cs) = n /\ \A i \in 1..n : cs[i].idx = i - 1

\* C24: after a successful submission the prover calls
\* bridge_withdrawal(batch_id_onchain, i) once for each withdrawal index i, in
\* increasing order, goes on to i+1 when the call for i fails, and the batch
\* is Finalized whatever the calls returned; a batch without withdrawals gets
\* no bridge call.
C24_BridgeLoop ==
    /\ [](/\ pc = "bridging" => InOrder(CallsOf(bridge.calls, cur.batch_id), cur.idx)
          /\ bridge.pc # "idle" =>
                /\ pc = "bridging"
                /\ bridge.batch_id = Some(OnChainId(cur.batch_id))
                /\ bridge.idx = cur.idx
          /\ \A b \in DOMAIN batches :
                batches[b].status \notin {"Submitting", "Finalized"} =>
                   CallsOf(bridge.calls, b) = <<>>)
    /\ [][ /\ (pc = "bridging" /\ cur' # cur) =>
                /\ bridge'.calls = Append(bridge.calls, Returned)
                /\ batches'[cur.batch_id].status =
                      IF cur.idx + 1 < Cardinality(Withdrawals(cur.transactions))
                      THEN "Submitting" ELSE "Finalized"
                /\ pc' = "bridging" => cur' = [cur EXCEPT !.idx = cur.idx + 1]
           /\ \A b \in DOMAIN batches :
                (batches[b].status # "Finalized" /\ batches'[b].status = "Finalized") =>
                   /\ b = cur.batch_id
                   /\ InOrder(CallsOf(bridge'.calls, b),
                              Cardinality(Withdrawals(cur.transactions))) ]_vars

\* a batch of two withdrawals is Finalized after both of its bridge calls
\* failed, and a batch without withdrawals is Finalized without a call
C24_Witness ==
    /\ \E b \in DOMAIN batches :
          /\ batches[b].status = "Finalized"
          /\ Len(CallsOf(bridge.calls, b)) = 2
          /\ \A i \in 1..2 : CallsOf(bridge.calls, b)[i].result[1] = "Err"
    /\ \E b \in DOMAIN batches :
          /\ batches[b].status = "Finalized"
          /\ CallsOf(bridge.calls, b) = <<>>

\* the entries of the log of the call in progress
Invocations == {i \in DOMAIN bridge.log : bridge.log[i][1] = "sncast"}
Succeeded(output) == output.spawned /\ output.success
Marked(output) ==
    /\ output.spawned /\ ~output.success
    /\ output.stderr \cap {"already bridged", "bridge_key exists"} # {}
\* the command invocations and sleeps of a call come in this order
LogShape ==
    /\ Len(bridge.log) <= 5
    /\ \A i \in DOMAIN bridge.log :
          IF i % 2 = 1
          THEN /\ bridge.log[i][1] = "sncast"
               /\ bridge.log[i][2] = bridge.batch_id[1]
               /\ bridge.log[i][3] = bridge.idx
          ELSE bridge.log[i] = <<"sleep", IF i = 2 THEN 2000 ELSE 4000>>
    \* every invocation but the last one failed without the marker
    /\ \A i \in Invocations :
          i < Len(bridge.log) =>
             ~Succeeded(bridge.log[i][4]) /\ ~Marked(bridge.log[i][4])

\* C25: bridge_withdrawal invokes the command at most three times per call,
\* returns Ok at the first attempt that succeeds, Ok("already_bridged") at the
\* first attempt that reports the marker, sleeps 2000 ms after a first and
\* 4000 ms after a second failure, returns the error of the third failure
\* without another sleep, and rejects a batch id with a character outside
\* [A-Za-z0-9-] before any command is invoked.
C25_Retries ==
    /\ Cardinality(Invocations) <= 3
    /\ LogShape
    /\ bridge.pc = "sleep" => Last(bridge.log)[1] = "sleep"
    /\ bridge.pc = "returned" =>
          IF ~BridgeIdOk(bridge.batch_id[1])
          THEN /\ bridge.log = <<>>
               /\ bridge.result = Some(<<"Err", "Validation", "invalid batch_id format">>)
          ELSE /\ bridge.log # <<>>
               /\ LET output == Last(bridge.log)[4]
                      result == bridge.result[1]
                  IN /\ Last(bridge.log)[1] = "sncast"
                     /\ Succeeded(output) =>
                           result = <<"Ok", IF output.tx_hash = None THEN "unknown"
                                            ELSE output.tx_hash[1]>>
                     /\ Marked(output) => result = <<"Ok", "already_bridged">>
                     /\ (~Succeeded(output) /\ ~Marked(output)) =>
                           /\ Cardinality(Invocations) = 3
                           /\ result[1] = "Err"
                           /\ result[2] = IF output.spawned THEN "OnChain" ELSE "Execution"
    /\ \A i \in DOMAIN bridge.calls :
          ~BridgeIdOk(bridge.calls[i].batch_id) =>
             bridge.calls[i].result = <<"Err", "Validation", "invalid batch_id format">>

\* a call has failed three times, with both sleeps, after a call with a
\* malformed batch id was rejected
C25_Witness ==
    /\ bridge.pc = "returned"
    /\ Len(bridge.log) = 5
    /\ bridge.result[1][1] = "Err"
    /\ \E i \in DOMAIN bridge.calls : ~BridgeIdOk(bridge.calls[i].batch_id)

\* a call has returned already_bridged at its second attempt
AlreadyBridgedReturned ==
    /\ bridge.pc = "returned"
    /\ Len(bridge.log) = 3
    /\ bridge.result = Some(<<"Ok", "already_bridged">>)

\* the deposits of a batch in batch order, and the record step 7 builds for
\* the j-th of them (from 0): the builder's commitment to the deposit tx is
\* its only output commitment
DepositsOf(txs) == SelectSeq(txs, LAMBDA tx : tx.kind = "Deposit")
DepositRecord(b, tx, j, k) ==
    [commitment |-> k, merkle_path |-> [siblings |-> <<>>, index |-> 0],
     merkle_root |-> 0, batch_id |-> b, commitment_digest |-> Some(<<tx.id, 1>>),
     note_index_in_batch |-> j]
Finalizes(b) ==
    /\ b \in DOMAIN batches /\ batches[b].status # "Finalized"
    /\ batches'[b].status = "Finalized"

\* C26: once a batch is finalized and indexed the note store holds a record
\* for each of its deposits, with empty siblings, index 0, the sentinel root,
\* the batch id, the deposit's own digest and its position among the batch's
\* deposits; nothing is written for withdrawals, transfers or Failed batches.
C26_NotePerDeposit ==
    [][ /\ \A b \in DOMAIN batches :
             Finalizes(b) =>
                LET deps == DepositsOf(cur.transactions)
                IN \A j \in 1..Len(deps) :
                      \E k \in DOMAIN notes' :
                         notes'[k] = DepositRecord(b, deps[j], j - 1, k)
        /\ notes' # notes => Finalizes(cur.batch_id)
        /\ \A k \in DOMAIN notes' :
             (k \notin DOMAIN notes \/ notes'[k] # notes[k]) =>
                \E j \in DOMAIN DepositsOf(cur.transactions) :
                   notes'[k] = DepositRecord(cur.batch_id,
                                             DepositsOf(cur.transactions)[j], j - 1, k) ]_vars

\* what the code gives: the records are stored under commitment_key, so of
\* the deposits of a batch with equal note fields the last one keeps a record
NotesOfCode ==
    [][ /\ \A b \in DOMAIN batches :
             Finalizes(b) =>
                LET deps == DepositsOf(cur.transactions)
                IN \A j \in 1..Len(deps) :
                      (\A l \in (j + 1)..Len(deps) : deps[l].ck # deps[j].ck) =>
                         /\ deps[j].ck \in DOMAIN notes'
                         /\ notes'[deps[j].ck] = DepositRecord(b, deps[j], j - 1, deps[j].ck)
        /\ notes' # notes => Finalizes(cur.batch_id)
        /\ \A k \in DOMAIN notes' :
             (k \notin DOMAIN notes \/ notes'[k] # notes[k]) =>
                \E j \in DOMAIN DepositsOf(cur.transactions) :
                   notes'[k] = DepositRecord(cur.batch_id,
                                             DepositsOf(cur.transactions)[j], j - 1, k) ]_vars

\* a batch with two deposits of equal note fields is Finalized and the store
\* holds one record
C26_Witness ==
    /\ 1 \in DOMAIN batches /\ batches[1].status = "Finalized"
    /\ Cardinality({e \in effects : e[1] = "note"}) = 2
    /\ Cardinality(DOMAIN notes) = 1

\* the place in the batch of its j-th deposit (from 1), and the position in
\* the stream the claim gives its commitment
DepositAt(txs, j) ==
    CHOOSE i \in DOMAIN txs :
       /\ txs[i].kind = "Deposit"
       /\ Cardinality({l \in 1..i : txs[l].kind = "Deposit"}) = j
StreamPosition(txs, j) ==
    LET i == DepositAt(txs, j)
    IN Cardinality({l \in 1..(i - 1) : txs[l].kind = "Deposit"})
         + 2 * Cardinality({l \in 1..(i - 1) : txs[l].kind = "Transfer"})

\* C27: on a stream with 1, 0 and 2 commitments per deposit, withdraw and
\* transfer, extract_deposit_digests returns one digest per deposit in deposit
\* order, the j-th being the commitment at position (deposits before it) +
\* 2 * (transfers before it), and the record written for the j-th deposit
\* carries that digest.
C27_DigestPositions ==
    /\ [](LET txs == cur.transactions
              kinds == [i \in DOMAIN txs |-> tx_kind(txs[i])]
              stream == new_commitments(txs)
              digests == extract_deposit_digests(kinds, stream)
              d == Cardinality({i \in DOMAIN txs : txs[i].kind = "Deposit"})
          IN /\ Len(digests) = d
             /\ \A j \in 1..d : digests[j] = stream[StreamPosition(txs, j) + 1])
    /\ [][\A b \in DOMAIN batches :
             Finalizes(b) =>
                LET txs == cur.transactions
                    deps == DepositsOf(txs)
                IN \A j \in 1..Len(deps) :
                      (\A l \in (j + 1)..Len(deps) : deps[l].ck # deps[j].ck) =>
                         /\ notes'[deps[j].ck].note_index_in_batch = j - 1
                         /\ notes'[deps[j].ck].commitment_digest
                              = Some(new_commitments(txs)[StreamPosition(txs, j) + 1])]_vars

\* a batch of a deposit, a withdrawal and a transfer followed by a deposit is
\* Finalized: the record of the second deposit carries the digest of the
\* fourth transaction
C27_Witness ==
    /\ 1 \in DOMAIN batches /\ batches[1].status = "Finalized"
    /\ Cardinality({e \in effects : e[1] = "bridge"}) = 1
    /\ \E k \in DOMAIN notes :
          /\ notes[k].note_index_in_batch = 1
          /\ notes[k].commitment_digest = Some(<<4, 1>>)

\* the record under key k waits for its proof and its digest d is a leaf of
\* the tree under the mutex; the record under key k has a proof
PendingInTree(k, d) ==
    /\ k \in DOMAIN notes
    /\ notes[k].merkle_root = 0
    /\ notes[k].commitment_digest = Some(d)
    /\ tree_sync # None
    /\ d \in Range(tree_sync[1])
Populated(k) == k \in DOMAIN notes /\ notes[k].merkle_root # 0
\* the records a step of the backfill loop has dealt with
Backfilled == IF syncer.pc = "backfill" THEN syncer.pending \ syncer'.pending ELSE {}

IsPrefix(s, t) == Len(s) <= Len(t) /\ SubSeq(t, 1, Len(s)) = s
\* sync_once returns at this step
SyncEnds == syncer.pc = "syncing" /\ syncer'.pc # "syncing"

\* C29: after every sync_once, whatever its outcome (success, sync error,
\* failure of the blocking worker), the tree under the mutex holds at least
\* the leaves it held when the sync started.
C29_TreePutBack ==
    [][SyncEnds => IsPrefix(syncer.taken, tree_sync'[1])]_vars

\* what the code gives: the tree is put back with the leaves it had, or the
\* empty tree of mem::replace stays under the mutex
SyncOfCode ==
    [][SyncEnds => tree_sync'[1] = <<>> \/ IsPrefix(syncer.taken, tree_sync'[1])]_vars

\* a sync_once has returned and the tree under the mutex is empty, while a
\* record holds the proof of a leaf the tree had
C29_Witness ==
    /\ tree_sync = Some(<<>>)
    /\ syncer.pc # "syncing"
    /\ \E k \in DOMAIN notes : Populated(k)

\* get_proof answers at this step the lookup of digest d
Looked(d) ==
    /\ lookup # None /\ lookup' = None
    /\ parse_commitment_hex(lookup[1].commitment) = Some(d)

\* C30: the tree is append-only for its readers: a digest that get_proof or
\* the backfill has found at a leaf index (a record holds the proof that
\* lookup gave) is found at the same index by every later lookup, also by
\* one that runs during a sync_once.
C30_AppendOnly ==
    [][\A k \in DOMAIN notes :
          (Populated(k) /\ Looked(notes[k].commitment_digest[1])) =>
             /\ reply'.status = "ok"
             /\ reply'.merkle_path[1].index = notes[k].merkle_path.index]_vars

\* a lookup by digest was answered NotFound while a sync_once was running,
\* for a digest the backfill had found in the tree
C30_Witness ==
    /\ syncer.pc = "syncing"
    /\ reply.status = "NotFound"
    /\ \E k \in DOMAIN notes :
          /\ Populated(k)
          /\ reply.asked = Some(DigestHex(notes[k].commitment_digest[1]))

\* the entries of map m other than those in gone are as they were
OthersKept(m, m2, gone) ==
    /\ DOMAIN m2 = DOMAIN m \ gone
    /\ \A k \in DOMAIN m2 : m2[k] = m[k]

\* C31: eviction never removes a Pending, Proving or Submitting batch record,
\* whatever its age, so the record of the prover's in-flight batch is there
\* for every status update; eviction removes exactly the Finalized / Failed
\* records created at least 24 h ago, the tokens created at least 1 h ago and
\* the rate windows started at least 1 h ago, and changes nothing else, the
\* note records included.
C31_Eviction ==
    /\ [](pc # "idle" =>
            /\ cur.batch_id \in DOMAIN batches
            /\ batches[cur.batch_id].status \in {"Pending", "Proving", "Submitting"})
    /\ [](\A b \in DOMAIN batches : batches[b].error # Some(<<"store", "batch not found">>))
    /\ [][\A b \in DOMAIN batches :
            b \notin DOMAIN batches' => batches[b].status \in {"Finalized", "Failed"}]_vars
    /\ [][EvictExpired =>
            /\ OthersKept(batches, batches',
                          {b \in DOMAIN batches :
                             /\ batches[b].status \in {"Finalized", "Failed"}
                             /\ now - batches[b].created_at >= 24 * 3600})
            /\ OthersKept(idempotency, idempotency',
                          {k \in DOMAIN idempotency : now - idempotency[k].created >= 3600})
            /\ OthersKept(rate_limits, rate_limits',
                          {k \in DOMAIN rate_limits :
                             now - rate_limits[k].window_start >= 3600})
            /\ notes' = notes]_vars

\* the eviction has removed a Finalized record and left in place the record
\* of a batch of the same age that is still being proved, and the note record
\* of the removed batch
C31_Witness ==
    /\ 1 \notin DOMAIN batches
    /\ 1 \in DOMAIN notes /\ notes[1].batch_id = 1
    /\ pc = "proving"
    /\ now - batches[cur.batch_id].created_at >= BATCH_RETENTION_SECS
    /\ DOMAIN idempotency = {}

\* C32: the Redis-backed check_rate answers every call as the in-memory
\* check_rate does, for every key, limit, window length and timed sequence of
\* calls.
C32_SameAnswers ==
    (ev # NoEvent /\ ev.op = "check_rate") => ev.redis_allowed = ev.allowed

\* what the code gives: a call the Redis store allows is allowed by the
\* in-memory store too
RedisOfCode ==
    (ev # NoEvent /\ ev.op = "check_rate") => (ev.redis_allowed => ev.allowed)

\* the in-memory store has opened a new window for a key and allowed the
\* call, the Redis store has refused it
C32_Witness ==
    /\ ev # NoEvent /\ ev.op = "check_rate"
    /\ ev.allowed /\ ~ev.redis_allowed
    /\ rate_limits[ev.key].window_start = now
    /\ now > 0

\* request r passes its per-IP rate check at this step
IpChecked(r) ==
    /\ reqs[r].pc = "ip_rate"
    /\ r \notin DOMAIN reqs' \/ reqs'[r].pc # "ip_rate"
\* the per-IP check of the step was made on the window of address a
CountedFor(a) ==
    rate_limits' = check_rate(rate_limits, <<"ip", a>>, 3 * rate_limit_per_min, 60,
                              now).rate_limits

\* C33: the per-IP window of a request is that of its socket peer whatever
\* its X-Forwarded-For header says, unless the peer is a configured trusted
\* proxy; only then is the first entry of X-Forwarded-For, when it is not
\* empty, the client address.
C33_ClientIp ==
    [][\A r \in DOMAIN reqs :
          IpChecked(r) =>
             IF reqs[r].ip \notin trusted_proxies
             THEN CountedFor(reqs[r].ip)
             ELSE \/ CountedFor(reqs[r].ip)
                  \/ /\ reqs[r].xff # None
                     /\ reqs[r].xff[1].is_text
                     /\ reqs[r].xff[1].entries[1].text # 0
                     /\ CountedFor(reqs[r].xff[1].entries[1].text)]_vars

\* two requests from the untrusted peer 1 with different X-Forwarded-For
\* headers have been counted in the window of peer 1, and one that came
\* through the proxy in the window of the address its header names
C33_Witness ==
    /\ trusted_proxies = {ProxyPeer}
    /\ <<"ip", 1>> \in DOMAIN rate_limits /\ rate_limits[<<"ip", 1>>].count = 2
    /\ <<"ip", 3>> \in DOMAIN rate_limits /\ rate_limits[<<"ip", 3>>].count = 1
    /\ <<"ip", ProxyPeer>> \notin DOMAIN rate_limits
    /\ reqs = <<>>

\* request r is answered at this step
Answers(r) == r \in DOMAIN reqs /\ r \notin DOMAIN reqs' /\ resp'.id = r
\* a submission with idempotency key k was accepted: its transaction is
\* enqueued, or it has passed the idempotency check with a request that
\* validates and is about to be pushed
Accepted(k) ==
    \/ \E e \in enqueued : e.key = k
    \/ \E q \in DOMAIN reqs :
          /\ reqs[q].idem_key = Some(k)
          /\ \/ reqs[q].pc = "sending"
             \/ /\ reqs[q].pc = "validate"
                /\ validate_and_convert(reqs[q].req[1]).err = None

\* C34: a submission is answered "duplicate" only if an earlier submission
\* with the same idempotency key was accepted and enqueued; a submission
\* rejected by validation leaves no token, so its resubmission gets 400 again.
C34_DuplicateOnlyAccepted ==
    [][\A r \in DOMAIN reqs :
          /\ (Answers(r) /\ resp'.status = "duplicate") => Accepted(reqs[r].idem_key[1])
          /\ (Answers(r) /\ reqs[r].pc = "validate" /\ resp'.status = "BadRequest") =>
                reqs[r].idem_key[1] \notin DOMAIN idempotency']_vars

\* a submission was answered "duplicate" and no transaction was ever enqueued
C34_Witness ==
    /\ resp.status = "duplicate"
    /\ resp.code = 200
    /\ enqueued = {}
    /\ reqs = <<>>

\* C35: a note record with a populated Merkle root never returns to the
\* sentinel root and keeps its commitment_digest and batch_id, whatever runs
\* later (the indexing of a later batch, a backfill turn, a read-path fill),
\* also when two deposits have the same owner key, asset and amount.
C35_PopulatedStays ==
    [][\A k \in DOMAIN notes :
          notes[k].merkle_root # 0 =>
             /\ k \in DOMAIN notes'
             /\ notes'[k].merkle_root # 0
             /\ notes'[k].commitment_digest = notes[k].commitment_digest
             /\ notes'[k].batch_id = notes[k].batch_id]_vars

\* what the code gives: a populated record is changed by nothing but the
\* indexing step of a batch with a deposit of the same note fields
PopulatedOfCode ==
    [][\A k \in DOMAIN notes :
          (notes[k].merkle_root # 0 /\ ~Kept(k)) =>
             /\ Finalizes(cur.batch_id)
             /\ \E tx \in Range(cur.transactions) : tx.kind = "Deposit" /\ tx.ck = k]_vars

\* the record of the first deposit, populated by the backfill, has been
\* replaced by the sentinel record of a second deposit with the same note
\* fields
C35_Witness ==
    /\ tree_sync # None /\ <<1, 1>> \in Range(tree_sync[1])
    /\ reply.status = "ok" /\ reply.batch_id = Some(1)
    /\ \E k \in DOMAIN notes :
          /\ reply.commitment = Some(KeyHex(k))
          /\ notes[k].batch_id = 2
          /\ notes[k].merkle_root = 0

\* C36: under any interleaving of concurrent submit requests and for any
\* max_size, also above 1024, the pending queue never holds more than
\* MAX_PENDING_TXS transactions.
C36_QueueBound == Len(pending) <= MAX_PENDING_TXS

\* what the code gives: the queue exceeds the limit by at most the number of
\* requests that were between their admission check and their push
QueueOfCode == Len(pending) <= MAX_PENDING_TXS + MaxInFlight

\* two requests passed the admission check at 1023 queued transactions and
\* both pushed
C36_Witness ==
    /\ Len(pending) = MAX_PENDING_TXS + 1
    /\ max_size > MAX_PENDING_TXS
    /\ Cardinality(enqueued) = 2
    /\ reqs = <<>>

\* C37: a batch id returned by push or by force_flush identifies a ReadyBatch
\* that was placed on the channel; with the receiver closed neither returns
\* Some(batch id), so both report a dropped batch in the same way.
C37_ReturnedIdsSent ==
    (ev.op \in {"push", "force_flush"} /\ ev.batch_id # 0) => ev.batch_id \in Range(sent)

\* what the code gives: force_flush returns the id of a batch it has sent
ForceFlushOfCode ==
    (ev.op = "force_flush" /\ ev.batch_id # 0) => ev.batch_id \in Range(sent)

\* push has returned the id of a batch whose send failed on the closed channel
C37_Witness ==
    /\ ~rxOpen
    /\ ev.op = "push"
    /\ ev.batch_id # 0
    /\ ev.batch_id \notin Range(sent)
    /\ pending = <<>>

\* a flush is waiting for space on the channel to the prover
WaitsForSpace == rxOpen /\ ~ChannelHasRoom /\ (lockSend # <<>> \/ loopSend # <<>>)

\* C38: no task holds the pending-queue lock while it waits for space on the
\* channel: while the channel is full and a flush waits to send, a push (and
\* with it pending_count and the timeout loop's check, which take the same
\* lock) still completes without the prover taking a batch.
C38_LockFreeSend ==
    WaitsForSpace => lockSend = <<>> /\ ENABLED Push("Deposit", 1)

\* what the code gives: the lock is free while the timeout loop waits to send
LoopSendOfCode ==
    (WaitsForSpace /\ lockSend = <<>>) => ENABLED Push("Deposit", 1)

\* the channel is full, a push waits in send with the batch it drained, and a
\* transaction pushed before is still to come: no push can be made
C38_Witness ==
    /\ rxOpen /\ ~ChannelHasRoom
    /\ lockSend # <<>> /\ lockSend[1].op = "push"
    /\ loopSend = <<>>
    /\ ~ENABLED Push("Deposit", 1)

\* a deposit of an amount on the whitelist of its asset, one of the five
\* known ones, with every key element in range
InRange(arr) == \A i \in DOMAIN arr : ~u32_gt(arr[i], M31_MODULUS)
WhitelistedDeposit(req) ==
    /\ req.type = "deposit"
    /\ denominations_for_asset(req.asset_id) # None
    /\ req.amount \in Range(denominations_for_asset(req.asset_id)[1])
    /\ InRange(req.recipient_pubkey)
    /\ InRange(req.recipient_viewing_key)

\* C39: every denomination on the whitelist of a known asset is depositable:
\* a deposit of that amount for that asset with in-range keys passes
\* validate_and_convert and is pushed, never answered 400.
C39_WhitelistDepositable ==
    [][\A r \in DOMAIN reqs :
          (ValidateAndPush(r) /\ WhitelistedDeposit(reqs[r].req[1]))
             => resp'.code # status_code("BadRequest") /\ enqueued' # enqueued]_vars

\* what the code gives: the whitelisted amounts up to MAX_NOTE_AMOUNT pass
DenominationsOfCode ==
    [][\A r \in DOMAIN reqs :
          (/\ ValidateAndPush(r)
           /\ WhitelistedDeposit(reqs[r].req[1])
           /\ ~u64_gt(reqs[r].req[1].amount, MAX_NOTE_AMOUNT))
             => resp'.code # status_code("BadRequest") /\ enqueued' # enqueued]_vars

\* the deposit of 5 STRK, whose token was placed, has been answered 400 and
\* nothing was pushed
C39_Witness ==
    /\ resp.code = status_code("BadRequest")
    /\ enqueued = {}
    /\ \E k \in DOMAIN idempotency :
          /\ k[1] = "sha256"
          /\ WhitelistedDeposit(k[2].tail)
          /\ k[2].tail.asset_id = U32(0, 3)
          /\ k[2].tail.amount = U64(5, 0, 0)

\* request s has passed its idempotency check
Checked(s) == reqs[s].pc \in {"validate", "sending"}

\* C40: two submissions with different content are never treated as duplicates
\* of each other: their idempotency keys differ (plaintext or encrypted, the
\* envelopes differing anywhere in ephemeral_pubkey, nonce or ciphertext), and
\* a request is not answered "duplicate" on the token of a request of
\* different content.
C40_DistinctContentDistinctKey ==
    [][\A r \in DOMAIN reqs, s \in DOMAIN reqs :
          /\ (/\ reqs[r].idem_key # None
              /\ reqs[s].idem_key # None
              /\ reqs[r].body # reqs[s].body) => reqs[r].idem_key # reqs[s].idem_key
          /\ \A over_capacity \in BOOLEAN :
                (/\ r # s
                 /\ Checked(s)
                 /\ reqs[s].idem_key = reqs[r].idem_key
                 /\ Idempotency(r, over_capacity)
                 /\ resp'.status = "duplicate") => reqs[s].body = reqs[r].body]_vars

\* what the code gives: plaintext requests of equal key are equal, envelopes of
\* equal key agree in the ephemeral key, the nonce and the first 64 characters
\* of the ciphertext, and no envelope shares a key with a plaintext request
DedupOfCode ==
    \A r \in DOMAIN reqs, s \in DOMAIN reqs :
       (reqs[r].idem_key # None /\ reqs[r].idem_key = reqs[s].idem_key) =>
          /\ reqs[r].body.type = "encrypted" <=> reqs[s].body.type = "encrypted"
          /\ reqs[r].body.type # "encrypted" => reqs[r].body = reqs[s].body
          /\ reqs[r].body.type = "encrypted" =>
                /\ reqs[r].body.ephemeral_pubkey = reqs[s].body.ephemeral_pubkey
                /\ reqs[r].body.nonce = reqs[s].body.nonce
                /\ reqs[r].body.ciphertext.head = reqs[s].body.ciphertext.head

\* two envelopes that differ beyond the first 64 characters of the ciphertext
\* are in progress with one key: the first has placed its token, nothing else
\* was submitted, and the second is about to be answered "duplicate"
C40_Witness ==
    /\ nextReq = 3
    /\ DOMAIN reqs = {1, 2}
    /\ reqs[1].body = seal(GoodDeposit, 1, 1)
    /\ reqs[2].body = seal(OtherDeposit, 1, 1)
    /\ Checked(1)
    /\ reqs[2].pc = "idempotency"
    /\ reqs[2].idem_key = reqs[1].idem_key
    /\ reqs[1].idem_key[1] \in DOMAIN idempotency
    /\ ENABLED (Idempotency(2, FALSE) /\ resp'.status = "duplicate")

====
